---------------------------- MODULE Spec2Model ----------------------------
(***************************************************************************)
(* Model of the CCTwinCities MCP server (src/src/index.ts): the startup    *)
(* load of CC.json and of the widget HTML, the three tool handlers         *)
(* get_volunteer_opportunities, get_donation_options and search_org_info,  *)
(* and the SSE session registry behind GET /mcp and POST /messages.        *)
(*                                                                         *)
(* JavaScript strings on which the code does character work (toLowerCase,  *)
(* includes, split) are tuples of one-character strings.  Strings that the *)
(* code only copies (e-mails, phones, URLs, fixed prose) are atomic TLA+   *)
(* strings.  A text built by concatenation is the sequence of its pieces:  *)
(* T(s) for an atomic string, S(cs) for a character string, N(n) for a     *)
(* number rendered by a template.                                          *)
(***************************************************************************)
EXTENDS Integers, Sequences, FiniteSets, TLC

VARIABLES
  pc,                  \* position of the process in the top-level script
  dataFile,            \* content of CC.json read at startup
  widgetFile,          \* content of dist/volunteer-widget.html, or unreadable
  NODE_ENV,            \* process.env.NODE_ENV
  ccData,              \* the Data Store (let ccData)
  volunteerWidgetHtml, \* let volunteerWidgetHtml
  transports,          \* const transports: sessionId -> transport
  created,             \* number of SSEServerTransport objects created so far
  closed,              \* session ids whose transport has had its close event
  last,                \* the last request served and its response
  errorLog,            \* tools whose catch block has logged via console.error
  widget,              \* the volunteer widget in the host page: component
                       \* state, window.openai and the calls made on it
  observed,            \* a tool result a client has received and kept
  hits                 \* the limiter's store: requests counted in the current
                       \* window, per client address whose entry is followed

vars == <<pc, dataFile, widgetFile, NODE_ENV, ccData, volunteerWidgetHtml,
          transports, created, closed, last, errorLog, widget, observed,
          hits>>

-----------------------------------------------------------------------------
(* Bounds *)

MaxOpps == 2        \* longest volunteer.opportunities list drawn
MaxWords == 2       \* most words in a search_org_info query
MaxSessions == 2    \* most SSE transports created in one behaviour
MaxOver == 2        \* most requests followed once the limiter rejects

-----------------------------------------------------------------------------
(* JavaScript strings *)

UpperCase == <<"A","B","C","D","E","F","G","H","I","J","K","L","M",
               "N","O","P","Q","R","S","T","U","V","W","X","Y","Z">>
LowerCase == <<"a","b","c","d","e","f","g","h","i","j","k","l","m",
               "n","o","p","q","r","s","t","u","v","w","x","y","z">>

LowerChar(c) ==
  IF \E i \in 1..26 : UpperCase[i] = c
  THEN LowerCase[CHOOSE i \in 1..26 : UpperCase[i] = c]
  ELSE c

\* String.prototype.toLowerCase
ToLowerCase(s) == [i \in 1..Len(s) |-> LowerChar(s[i])]

\* String.prototype.includes
Includes(s, sub) ==
  \E i \in 0..(Len(s) - Len(sub)) : SubSeq(s, i + 1, i + Len(sub)) = sub

\* pieces of a text
T(s) == [lit |-> s]
S(cs) == [str |-> cs]
N(n) == [num |-> n]

\* Array.prototype.join on an array of texts
RECURSIVE Join(_, _)
Join(texts, sep) ==
  IF Len(texts) = 0 THEN <<>>
  ELSE IF Len(texts) = 1 THEN texts[1]
  ELSE texts[1] \o sep \o Join(Tail(texts), sep)

\* the rendering of a value that may be undefined inside a template literal
Tpl(rec, field, piece) ==
  IF field \in rec.missing THEN T("undefined") ELSE piece

-----------------------------------------------------------------------------
(* Outcome of a block of code: a value, or a thrown error *)

Ok(v) == [threw |-> FALSE, value |-> v]
Threw(e) == [threw |-> TRUE, error |-> e]

ErrToLowerCase == "TypeError: Cannot read properties of undefined (reading 'toLowerCase')"
ErrSome == "TypeError: Cannot read properties of undefined (reading 'some')"
ErrLength == "TypeError: Cannot read properties of undefined (reading 'length')"
ErrMainContact == "TypeError: Cannot read properties of undefined (reading 'main_contact')"

-----------------------------------------------------------------------------
(* Tool schemas *)

ScheduleTypes == {"one-time", "weekly", "flexible", "ongoing"}
DonationTypes == {"online", "in_kind", "vehicle"}
CriteriaNames == {"keyword", "city", "schedule_type", "age_minimum",
                  "group_friendly", "skill"}

Has(params, k) == k \in DOMAIN params

-----------------------------------------------------------------------------
(* get_volunteer_opportunities *)

\* Each filter below is opportunities.filter(pred) on the list left by the
\* previous one: pred is evaluated on the elements in order, and an exception
\* thrown by it aborts the filter and the try block.

\* opp.title.toLowerCase().includes(kw) || opp.description.toLowerCase().includes(kw)
\* throws when the title, or the description it goes on to read, is undefined
KeywordThrows(opp, kw) ==
  \/ "title" \in opp.missing
  \/ /\ ~Includes(ToLowerCase(opp.title), kw)
     /\ "description" \in opp.missing

\* the keyword filter without the lower-casing of the keyword
KeywordFilterCaseSensitive(o, params) ==
  IF Has(params, "keyword") /\ params.keyword # <<>> /\ ~o.threw
  THEN LET kw == params.keyword
       IN IF \E i \in 1..Len(o.value) : KeywordThrows(o.value[i], kw)
          THEN Threw(ErrToLowerCase)
          ELSE Ok(SelectSeq(o.value,
                    LAMBDA opp : \/ Includes(ToLowerCase(opp.title), kw)
                                 \/ Includes(ToLowerCase(opp.description), kw)))
  ELSE o

\* the keyword filter as the title matches followed by the description matches
KeywordFilterConcat(o, params) ==
  IF Has(params, "keyword") /\ params.keyword # <<>> /\ ~o.threw
  THEN LET kw == ToLowerCase(params.keyword)
       IN IF \E i \in 1..Len(o.value) : KeywordThrows(o.value[i], kw)
          THEN Threw(ErrToLowerCase)
          ELSE Ok(SelectSeq(o.value,
                    LAMBDA opp : Includes(ToLowerCase(opp.title), kw))
                  \o SelectSeq(o.value,
                       LAMBDA opp : Includes(ToLowerCase(opp.description), kw)))
  ELSE o

\* lines 113-120
KeywordFilter(o, params) ==
  IF Has(params, "keyword") /\ params.keyword # <<>> /\ ~o.threw
  THEN LET kw == ToLowerCase(params.keyword)
       IN IF \E i \in 1..Len(o.value) : KeywordThrows(o.value[i], kw)
          THEN Threw(ErrToLowerCase)
          ELSE Ok(SelectSeq(o.value,
                    LAMBDA opp : \/ Includes(ToLowerCase(opp.title), kw)
                                 \/ Includes(ToLowerCase(opp.description), kw)))
  ELSE o

\* lines 122-127
CityFilter(o, params) ==
  IF Has(params, "city") /\ params.city # <<>> /\ ~o.threw
  THEN LET city == ToLowerCase(params.city)
       IN Ok(SelectSeq(o.value,
               LAMBDA opp : Includes(ToLowerCase(opp.location.city), city)))
  ELSE o

\* lines 129-133
ScheduleFilter(o, params) ==
  IF Has(params, "schedule_type") /\ ~o.threw
  THEN Ok(SelectSeq(o.value,
            LAMBDA opp : opp.schedule.type = params.schedule_type))
  ELSE o

\* the age filter behind a truthiness test: age_minimum = 0 is skipped
AgeFilterTruthy(o, params) ==
  IF Has(params, "age_minimum") /\ params.age_minimum # 0 /\ ~o.threw
  THEN Ok(SelectSeq(o.value,
            LAMBDA opp : opp.requirements.age_minimum <= params.age_minimum))
  ELSE o

\* lines 135-139
AgeFilter(o, params) ==
  IF Has(params, "age_minimum") /\ ~o.threw
  THEN Ok(SelectSeq(o.value,
            LAMBDA opp : opp.requirements.age_minimum <= params.age_minimum))
  ELSE o

\* the group filter guarded by the truth of the parameter
GroupFilterTruthy(o, params) ==
  IF Has(params, "group_friendly") /\ params.group_friendly /\ ~o.threw
  THEN Ok(SelectSeq(o.value,
            LAMBDA opp : opp.requirements.group_friendly = params.group_friendly))
  ELSE o

\* lines 141-145
GroupFilter(o, params) ==
  IF Has(params, "group_friendly") /\ ~o.threw
  THEN Ok(SelectSeq(o.value,
            LAMBDA opp : opp.requirements.group_friendly = params.group_friendly))
  ELSE o

\* lines 147-152
SkillFilter(o, params) ==
  IF Has(params, "skill") /\ params.skill # <<>> /\ ~o.threw
  THEN LET skill == ToLowerCase(params.skill)
       IN IF \E i \in 1..Len(o.value) : "skills" \in o.value[i].missing
          THEN Threw(ErrSome)
          ELSE Ok(SelectSeq(o.value,
                    LAMBDA opp : \E i \in 1..Len(opp.requirements.skills) :
                       Includes(ToLowerCase(opp.requirements.skills[i]), skill)))
  ELSE o

\* the filters as an else-if chain: only the first supplied criterion applies
ApplyFiltersElseIf(data, params) ==
  LET all == Ok(data.volunteer.opportunities)
  IN IF Has(params, "keyword") /\ params.keyword # <<>>
     THEN KeywordFilter(all, params)
     ELSE IF Has(params, "city") /\ params.city # <<>>
     THEN CityFilter(all, params)
     ELSE IF Has(params, "schedule_type") THEN ScheduleFilter(all, params)
     ELSE IF Has(params, "age_minimum") THEN AgeFilter(all, params)
     ELSE IF Has(params, "group_friendly") THEN GroupFilter(all, params)
     ELSE SkillFilter(all, params)

\* lines 110-152: the six filters, each applied to the result of the previous
ApplyFilters(data, params) ==
  SkillFilter(
    GroupFilter(
      AgeFilter(
        ScheduleFilter(
          CityFilter(
            KeywordFilter(Ok(data.volunteer.opportunities), params),
            params),
          params),
        params),
      params),
    params)

\* lines 156-166: opportunities.map(opp => ({id, title, ...}))
StructuredOpportunities(opportunities) ==
  [i \in 1..Len(opportunities) |->
     LET opp == opportunities[i]
     IN [id |-> opp.id,
         title |-> opp.title,
         description |-> opp.description,
         location |-> opp.location,
         schedule |-> opp.schedule,
         requirements |-> opp.requirements,
         contact |-> opp.contact,
         signup_url |-> opp.signup_url,
         source_url |-> opp.source_url,
         missing |-> opp.missing]]

\* a structured payload built from the stored list instead of the matches
StructuredContentStored(data, opportunities) ==
  IF "general_info" \in data.volunteer.missing
  THEN Threw(ErrMainContact)
  ELSE Ok([opportunities |-> StructuredOpportunities(data.volunteer.opportunities),
           contact |-> data.volunteer.general_info.main_contact])

\* lines 155-168
StructuredContent(data, opportunities) ==
  IF "general_info" \in data.volunteer.missing
  THEN Threw(ErrMainContact)
  ELSE Ok([opportunities |-> StructuredOpportunities(opportunities),
           contact |-> data.volunteer.general_info.main_contact])

null == "null"

\* a paragraph that prints the sign-up line for every opportunity
ParagraphAlwaysSignUp(opp, idx) ==
  <<N(idx + 1), T(". **"), Tpl(opp, "title", S(opp.title)), T("** - "),
    S(opp.location.city), T("\n"),
    T("   "), Tpl(opp, "description", S(opp.description)), T("\n"),
    T("   Schedule: "), T(opp.schedule.details), T("\n"),
    T("   Age: "), N(opp.requirements.age_minimum), T("+")>>
  \o (IF opp.requirements.group_friendly
      THEN <<T(" | Group-friendly (max "),
             IF opp.requirements.max_group_size # 0
             THEN N(opp.requirements.max_group_size) ELSE T("N/A"),
             T(")")>>
      ELSE <<>>)
  \o (IF Len(opp.requirements.skills) > 0
      THEN <<T(" | Skills: ")>>
           \o Join([i \in 1..Len(opp.requirements.skills) |->
                      <<S(opp.requirements.skills[i])>>], <<T(", ")>>)
      ELSE <<>>)
  \o <<T("\n"),
       T("   Contact: "), T(opp.contact.email), T(" | "), T(opp.contact.phone),
       T("\n")>>
  \o <<T("   Sign up: "), T(opp.signup_url), T("\n")>>

\* lines 178-190: one paragraph of the text summary
Paragraph(opp, idx) ==
  <<N(idx + 1), T(". **"), Tpl(opp, "title", S(opp.title)), T("** - "),
    S(opp.location.city), T("\n"),
    T("   "), Tpl(opp, "description", S(opp.description)), T("\n"),
    T("   Schedule: "), T(opp.schedule.details), T("\n"),
    T("   Age: "), N(opp.requirements.age_minimum), T("+")>>
  \o (IF opp.requirements.group_friendly
      THEN <<T(" | Group-friendly (max "),
             IF opp.requirements.max_group_size # 0
             THEN N(opp.requirements.max_group_size) ELSE T("N/A"),
             T(")")>>
      ELSE <<>>)
  \o (IF Len(opp.requirements.skills) > 0
      THEN <<T(" | Skills: ")>>
           \o Join([i \in 1..Len(opp.requirements.skills) |->
                      <<S(opp.requirements.skills[i])>>], <<T(", ")>>)
      ELSE <<>>)
  \o <<T("\n"),
       T("   Contact: "), T(opp.contact.email), T(" | "), T(opp.contact.phone),
       T("\n")>>
  \o (IF opp.signup_url \notin {null, ""}
      THEN <<T("   Sign up: "), T(opp.signup_url), T("\n")>>
      ELSE <<>>)

NoMatchText ==
  <<T("No volunteer opportunities match your criteria. Try adjusting your filters or contact "),
    T("volunteer@cctwincities.org"), T(" at "), T("(612) 204-8435"),
    T(" for more options.")>>

\* the heading with the plural noun for every count
TextSummaryAlwaysPlural(data, opportunities) ==
  IF Len(opportunities) = 0
  THEN Ok(NoMatchText)
  ELSE IF \E i \in 1..Len(opportunities) : "skills" \in opportunities[i].missing
  THEN Threw(ErrLength)
  ELSE Ok(<<T("Found "), N(Len(opportunities)), T(" volunteer opportunit"),
            T("ies"), T(":\n\n")>>
          \o Join([i \in 1..Len(opportunities) |->
                     Paragraph(opportunities[i], i - 1)], <<T("\n")>>)
          \o <<T("\n**General volunteer contact:** "),
               T(data.volunteer.general_info.main_contact.email), T(" | "),
               T(data.volunteer.general_info.main_contact.phone)>>)

\* lines 171-193
TextSummary(data, opportunities) ==
  IF Len(opportunities) = 0
  THEN Ok(NoMatchText)
  ELSE IF \E i \in 1..Len(opportunities) : "skills" \in opportunities[i].missing
  THEN Threw(ErrLength)
  ELSE Ok(<<T("Found "), N(Len(opportunities)), T(" volunteer opportunit"),
            T(IF Len(opportunities) = 1 THEN "y" ELSE "ies"), T(":\n\n")>>
          \o Join([i \in 1..Len(opportunities) |->
                     Paragraph(opportunities[i], i - 1)], <<T("\n")>>)
          \o <<T("\n**General volunteer contact:** "),
               T(data.volunteer.general_info.main_contact.email), T(" | "),
               T(data.volunteer.general_info.main_contact.phone)>>)

VolunteerMeta ==
  [outputTemplate |-> "ui://widget/volunteer-list.html",
   widgetAccessible |-> TRUE]

\* lines 110-208: the body of the try block
VolunteerTry(data, params) ==
  LET filtered == ApplyFilters(data, params)
  IN IF filtered.threw THEN filtered
     ELSE LET structuredContent == StructuredContent(data, filtered.value)
          IN IF structuredContent.threw THEN structuredContent
             ELSE LET textSummary == TextSummary(data, filtered.value)
                  IN IF textSummary.threw THEN textSummary
                     ELSE Ok([content |-> <<[type |-> "text",
                                             text |-> textSummary.value]>>,
                              structuredContent |-> structuredContent.value,
                              meta |-> VolunteerMeta])

VolunteerApology ==
  <<T("Sorry, an error occurred while searching for volunteer opportunities. Please try again or contact "),
    T("volunteer@cctwincities.org"), T(" at "), T("(612) 204-8435"), T(".")>>

\* a catch block that lets the error out of the handler
VolunteerCatchRethrow(error) == Threw(error)

\* lines 209-217
VolunteerCatch(error) ==
  Ok([content |-> <<[type |-> "text", text |-> VolunteerApology]>>])

\* lines 108-218: what one invocation of the handler produces
get_volunteer_opportunities(data, params) ==
  LET o == VolunteerTry(data, params)
  IN IF o.threw THEN VolunteerCatch(o.error) ELSE o

-----------------------------------------------------------------------------
(* get_donation_options *)

ErrDonationData == "TypeError: Cannot read properties of undefined (reading 'donation_page_url')"
ErrMap == "TypeError: Cannot read properties of undefined (reading 'map')"
ErrForEach == "TypeError: Cannot read properties of undefined (reading 'forEach')"
ErrProcess == "TypeError: Cannot read properties of undefined (reading 'process_description')"

\* items.map((t) => `(U+2022) ${t}`).join("\n"); [bullet] stands for U+2022
Bullets(items) ==
  Join([i \in 1..Len(items) |-> <<T("[bullet] "), T(items[i])>>], <<T("\n")>>)

\* lines 233-240
OnlineText(data) ==
  IF "online" \in data.donations.missing THEN Threw(ErrDonationData)
  ELSE LET donationData == data.donations.online
       IN IF "types" \in donationData.missing THEN Threw(ErrMap)
          ELSE Ok(<<T("**Online Donations to Catholic Charities Twin Cities**\n\n"),
                    T("Donate securely online at: "), T(donationData.donation_page_url),
                    T("\n\n"),
                    T("**Donation Types:**\n")>>
                  \o Bullets(donationData.types)
                  \o <<T("\n\n"), T(donationData.notes), T("\n\n"),
                       T("**Questions about giving?**\n"),
                       T("Phone: "), T(donationData.contact.phone), T("\n"),
                       T("Email: "), T(donationData.contact.email)>>)

\* lines 244-248
AcceptedItem(cat) ==
  <<T("**"), T(cat.category), T(":**\n"), T(cat.details), T("\n")>>
  \o (IF cat.restrictions \notin {null, ""}
      THEN <<T("*"), T(cat.restrictions), T("*\n")>> ELSE <<>>)
  \o <<T("\n")>>

\* lines 251-257
DropOff(loc) ==
  <<T(loc.name), T("\n"), T(loc.address), T("\n"),
    T("Hours: "), T(loc.hours), T("\n"),
    T("Phone: "), T(loc.phone), T("\n"),
    T("Email: "), T(loc.email), T("\n\n")>>

\* lines 241-259
InKindText(data) ==
  IF "in_kind" \in data.donations.missing THEN Threw(ErrForEach)
  ELSE LET donationData == data.donations.in_kind
       IN IF "accepted_items" \in donationData.missing THEN Threw(ErrForEach)
          ELSE Ok(<<T("**In-Kind Donations to Catholic Charities Twin Cities**\n\n"),
                    T("**Currently Accepting (NEW items only):**\n\n")>>
                  \o Join([i \in 1..Len(donationData.accepted_items) |->
                             AcceptedItem(donationData.accepted_items[i])], <<>>)
                  \o <<T("**NOT Accepted:**\n")>>
                  \o Bullets(donationData.not_accepted)
                  \o <<T("\n\n"), T("**Drop-Off Location:**\n")>>
                  \o Join([i \in 1..Len(donationData.drop_off_locations) |->
                             DropOff(donationData.drop_off_locations[i])], <<>>)
                  \o <<T("**Important Policies:**\n")>>
                  \o Bullets(donationData.policies)
                  \o <<T("\n\n"), T("View full wishlist: "), T(donationData.wishlist_url)>>)

\* lines 260-267
VehicleText(data) ==
  IF "vehicle" \in data.donations.missing THEN Threw(ErrProcess)
  ELSE LET donationData == data.donations.vehicle
       IN Ok(<<T("**Vehicle Donation to Catholic Charities Twin Cities**\n\n"),
               T(donationData.process_description), T("\n\n"),
               T("**To donate your vehicle:**\n"),
               T("Phone: "), T(donationData.phone), T("\n"),
               T("Online: "), T(donationData.program_url), T("\n\n"),
               T("Vehicles accepted: cars, trucks, trailers, boats, RVs, motorcycles, and other motorized vehicles.")>>)

\* the try block with the last branch testing a misspelt type
DonationTryMisspelt(data, params) ==
  LET donationType == params.type
      textContent ==
        IF donationType = "online" THEN OnlineText(data)
        ELSE IF donationType = "in_kind" THEN InKindText(data)
        ELSE IF donationType = "vehicles" THEN VehicleText(data)
        ELSE Ok(<<>>)
  IN IF textContent.threw THEN textContent
     ELSE Ok([content |-> <<[type |-> "text", text |-> textContent.value]>>])

\* lines 228-276: the body of the try block
DonationTry(data, params) ==
  LET donationType == params.type
      textContent ==
        IF donationType = "online" THEN OnlineText(data)
        ELSE IF donationType = "in_kind" THEN InKindText(data)
        ELSE IF donationType = "vehicle" THEN VehicleText(data)
        ELSE Ok(<<>>)
  IN IF textContent.threw THEN textContent
     ELSE Ok([content |-> <<[type |-> "text", text |-> textContent.value]>>])

DonationApology ==
  <<T("Sorry, an error occurred while getting donation information. Please contact "),
    T("giving.info@cctwincities.org"), T(" at "), T("(612) 204-8374"), T(".")>>

\* lines 277-285
DonationCatch(error) ==
  Ok([content |-> <<[type |-> "text", text |-> DonationApology]>>])

\* lines 226-286
get_donation_options(data, params) ==
  LET o == DonationTry(data, params)
  IN IF o.threw THEN DonationCatch(o.error) ELSE o

-----------------------------------------------------------------------------
(* search_org_info *)

MissionKeywords ==
  <<<<"m","i","s","s","i","o","n">>,
    <<"a","b","o","u","t">>,
    <<"w","h","a","t"," ","d","o">>,
    <<"p","u","r","p","o","s","e">>>>
serviceKeywords ==
  <<<<"s","e","r","v","i","c","e">>,
    <<"p","r","o","g","r","a","m">>,
    <<"h","e","l","p">>,
    <<"s","u","p","p","o","r","t">>,
    <<"s","h","e","l","t","e","r">>,
    <<"h","o","u","s","i","n","g">>,
    <<"f","o","o","d">>,
    <<"m","e","a","l">>,
    <<"h","o","m","e","l","e","s","s">>,
    <<"f","a","m","i","l","y">>,
    <<"s","e","n","i","o","r">>,
    <<"d","i","s","a","b","i","l","i","t","y">>,
    <<"c","h","i","l","d">>>>
ContactKeywords ==
  <<<<"c","o","n","t","a","c","t">>,
    <<"p","h","o","n","e">>,
    <<"e","m","a","i","l">>,
    <<"l","o","c","a","t","i","o","n">>,
    <<"a","d","d","r","e","s","s">>,
    <<"w","h","e","r","e">>>>
EventKeywords ==
  <<<<"e","v","e","n","t">>,
    <<"c","a","l","e","n","d","a","r">>>>
StatKeywords ==
  <<<<"s","t","a","t">>,
    <<"i","m","p","a","c","t">>,
    <<"h","o","w"," ","m","a","n","y">>,
    <<"n","u","m","b","e","r">>>>

\* kws.some((kw) => query.includes(kw))
AnyIncluded(query, kws) == \E i \in 1..Len(kws) : Includes(query, kws[i])

\* String.prototype.split with a one-character separator
RECURSIVE Split(_, _)
Split(s, c) ==
  IF \A i \in 1..Len(s) : s[i] # c THEN <<s>>
  ELSE LET i == CHOOSE j \in 1..Len(s) :
                  s[j] = c /\ \A k \in 1..(j - 1) : s[k] # c
       IN <<SubSeq(s, 1, i - 1)>> \o Split(SubSeq(s, i + 1, Len(s)), c)

\* Number.prototype.toLocaleString: the number with the runtime locale's
\* digit grouping
LocaleString(n) == [localized |-> n]

ErrHistory == "TypeError: Cannot read properties of undefined (reading 'history')"
ErrFilter == "TypeError: Cannot read properties of undefined (reading 'filter')"
ErrStats == "TypeError: Cannot read properties of undefined (reading 'stats')"
ErrFounded == "TypeError: Cannot read properties of undefined (reading 'founded')"

\* the mission test pushing the Mission block without the History block
MissionStepNoHistory(org, query, o) ==
  IF o.threw \/ ~AnyIncluded(query, MissionKeywords) THEN o
  ELSE Ok(o.value \o
          <<[heading |-> T("Mission"),
             summary |-> <<T(org.mission)>>,
             source_url |-> org.source_url]>>)

\* lines 300-316
MissionStep(org, query, o) ==
  IF o.threw \/ ~AnyIncluded(query, MissionKeywords) THEN o
  ELSE IF "about" \in org.missing THEN Threw(ErrHistory)
  ELSE Ok(o.value \o
          <<[heading |-> T("Mission"),
             summary |-> <<T(org.mission)>>,
             source_url |-> org.source_url],
            [heading |-> T("History"),
             summary |-> <<T(org.about.history), T(" Founded in "),
                           N(org.about.founded),
                           T(", Catholic Charities has served the Twin Cities for "),
                           N(org.about.stats.years_operating), T(" years.")>>,
             source_url |-> org.source_url]>>)

\* lines 337-339
ServiceMatches(svc, query) ==
  LET matchText == ToLowerCase(svc.name \o <<" ">> \o svc.description \o <<" ">>
                               \o Join(svc.keywords, <<" ">>))
      words == Split(query, " ")
  IN \E i \in 1..Len(words) : Includes(matchText, words[i])

\* lines 352-360
ServicesOverview(org) ==
  [heading |-> T("Services Overview"),
   summary |-> <<T("Catholic Charities Twin Cities offers these core services:\n\n")>>
               \o Join([i \in 1..Len(org.services) |->
                          <<T("[bullet] **"), S(org.services[i].name), T("**: "),
                            S(org.services[i].description)>>], <<T("\n\n")>>),
   source_url |-> org.source_url]

\* lines 334-362
ServiceStep(org, query, o) ==
  IF o.threw \/ ~AnyIncluded(query, serviceKeywords) THEN o
  ELSE IF "services" \in org.missing THEN Threw(ErrFilter)
  ELSE LET matchingServices ==
             SelectSeq(org.services, LAMBDA svc : ServiceMatches(svc, query))
       IN IF Len(matchingServices) > 0
          THEN Ok(o.value \o
                  [i \in 1..Len(matchingServices) |->
                     [heading |-> S(matchingServices[i].name),
                      summary |-> <<S(matchingServices[i].description)>>,
                      source_url |-> org.source_url]])
          ELSE Ok(o.value \o <<ServicesOverview(org)>>)

\* lines 373-394
ContactBlocks(org) ==
  <<[heading |-> T("Contact Information"),
     summary |-> <<T("**Main Office:**\n"),
                   T("Phone: "), T(org.contact.main_phone), T("\n"),
                   T("Email: "), T(org.contact.main_email), T("\n"),
                   T("Hours: "), T(org.contact.hours), T("\n\n"),
                   T("**Volunteer inquiries:** volunteer@cctwincities.org | (612) 204-8435\n"),
                   T("**Donation inquiries:** giving.info@cctwincities.org | (612) 204-8374")>>,
     source_url |-> org.source_url],
    [heading |-> T("Locations"),
     summary |-> Join([i \in 1..Len(org.locations) |->
                         <<T("**"), T(org.locations[i].name), T("**\n"),
                           T(org.locations[i].address)>>
                         \o (IF org.locations[i].phone \notin {null, ""}
                             THEN <<T("\nPhone: "), T(org.locations[i].phone)>>
                             ELSE <<>>)],
                      <<T("\n\n")>>),
     source_url |-> org.source_url]>>

\* the contact test as an else-if: skipped once another category has results
ContactStepElseIf(org, query, o) ==
  IF o.threw \/ ~AnyIncluded(query, ContactKeywords) \/ Len(o.value) > 0 THEN o
  ELSE Ok(o.value \o ContactBlocks(org))

\* lines 365-395
ContactStep(org, query, o) ==
  IF o.threw \/ ~AnyIncluded(query, ContactKeywords) THEN o
  ELSE Ok(o.value \o ContactBlocks(org))

\* lines 398-409
EventStep(org, query, o) ==
  IF o.threw \/ ~AnyIncluded(query, EventKeywords) THEN o
  ELSE Ok(o.value \o
          <<[heading |-> T("Upcoming Events"),
             summary |-> Join([i \in 1..Len(org.upcoming_events) |->
                                 <<T("**"), T(org.upcoming_events[i].name), T("** - "),
                                   T(org.upcoming_events[i].date), T("\n"),
                                   T(org.upcoming_events[i].description), T("\n"),
                                   T(org.upcoming_events[i].url)>>],
                              <<T("\n\n")>>),
             source_url |-> org.source_url]>>)

\* lines 412-431
StatStep(org, query, o) ==
  IF o.threw \/ ~AnyIncluded(query, StatKeywords) THEN o
  ELSE IF "about" \in org.missing THEN Threw(ErrStats)
  ELSE LET stats == org.about.stats
       IN Ok(o.value \o
             <<[heading |-> T("Impact & Statistics"),
                summary |-> <<T("Catholic Charities Twin Cities serves the community with significant impact:\n\n"),
                              T("[bullet] **"), LocaleString(stats.people_served_annually),
                              T("** people served annually\n"),
                              T("[bullet] **"), LocaleString(stats.meals_served_annually),
                              T("** meals served annually\n"),
                              T("[bullet] **"), LocaleString(stats.nights_of_housing_provided_annually),
                              T("** nights of housing provided annually\n"),
                              T("[bullet] **"), LocaleString(stats.volunteers_annually),
                              T("** volunteers annually\n"),
                              T("[bullet] **"), LocaleString(stats.volunteer_hours_annually),
                              T("+** volunteer hours annually\n"),
                              T("[bullet] **"), N(stats.years_operating),
                              T("** years serving the Twin Cities")>>,
                source_url |-> org.source_url]>>)

\* the default block pushed whatever the list holds
DefaultStepAlways(org, query, o) ==
  IF o.threw THEN o
  ELSE IF "about" \in org.missing THEN Threw(ErrFounded)
  ELSE Ok(o.value \o
          <<[heading |-> T("About Catholic Charities Twin Cities"),
             summary |-> <<T(org.mission), T("\n\nServing the "), T(org.service_area),
                           T(" since "), N(org.about.founded), T(".\n\nContact: "),
                           T(org.contact.main_phone), T(" | "),
                           T(org.contact.main_email)>>,
             source_url |-> org.source_url]>>)

\* lines 434-440
DefaultStep(org, query, o) ==
  IF o.threw \/ Len(o.value) # 0 THEN o
  ELSE IF "about" \in org.missing THEN Threw(ErrFounded)
  ELSE Ok(o.value \o
          <<[heading |-> T("About Catholic Charities Twin Cities"),
             summary |-> <<T(org.mission), T("\n\nServing the "), T(org.service_area),
                           T(" since "), N(org.about.founded), T(".\n\nContact: "),
                           T(org.contact.main_phone), T(" | "),
                           T(org.contact.main_email)>>,
             source_url |-> org.source_url]>>)

\* lines 296-440: the result list built by the try block
SearchResults(data, params) ==
  LET org == data.organization
      query == ToLowerCase(params.query)
  IN DefaultStep(org, query,
       StatStep(org, query,
         EventStep(org, query,
           ContactStep(org, query,
             ServiceStep(org, query,
               MissionStep(org, query, Ok(<<>>)))))))

\* lines 442-447
SearchText(results) ==
  Join([i \in 1..Len(results) |->
          <<T("**"), results[i].heading, T("**\n\n")>> \o results[i].summary
          \o <<T("\n\nSource: "), T(results[i].source_url)>>],
       <<T("\n\n---\n\n")>>)

\* lines 296-456: the body of the try block
SearchTry(data, params) ==
  LET results == SearchResults(data, params)
  IN IF results.threw THEN results
     ELSE Ok([content |-> <<[type |-> "text", text |-> SearchText(results.value)]>>])

SearchApology ==
  <<T("Sorry, an error occurred while searching organization information. Please contact "),
    T("info@cctwincities.org"), T(" at "), T("(612) 204-8500"), T(".")>>

\* a catch block that reports the error message to the user
SearchCatchWithMessage(error) ==
  Ok([content |-> <<[type |-> "text", text |-> SearchApology \o <<T(error)>>]>>])

\* lines 457-465
SearchCatch(error) ==
  Ok([content |-> <<[type |-> "text", text |-> SearchApology]>>])

\* lines 294-466
search_org_info(data, params) ==
  LET o == SearchTry(data, params)
  IN IF o.threw THEN SearchCatch(o.error) ELSE o

-----------------------------------------------------------------------------
(* Data Stores drawn as inputs: the shape of CC.json (AUDIT-FIXES.md,       *)
(* "CC.json Structure"), and records that lack a field the handlers read    *)

s_WarmMeal == <<"W","a","r","m"," ","M","e","a","l">>
s_ServeLunch == <<"S","e","r","v","e"," ","l","u","n","c","h">>
s_SewingCircle == <<"S","e","w","i","n","g"," ","C","i","r","c","l","e">>
s_MendCoats == <<"M","e","n","d"," ","c","o","a","t","s">>
s_FoodDrive == <<"F","o","o","d"," ","D","r","i","v","e">>
s_SortMEALS == <<"S","o","r","t"," ","M","E","A","L","S">>
s_MealPrep == <<"M","e","a","l"," ","P","r","e","p">>
s_Minneapolis == <<"M","i","n","n","e","a","p","o","l","i","s">>
s_SaintPaul == <<"S","a","i","n","t"," ","P","a","u","l">>
s_StPaul == <<"S","t","."," ","P","a","u","l">>
s_Maplewood == <<"M","a","p","l","e","w","o","o","d">>
s_Cooking == <<"C","o","o","k","i","n","g">>
s_Sewing == <<"S","e","w","i","n","g">>
s_MEALS == <<"M","E","A","L","S">>
s_Meal == <<"M","e","a","l">>
s_Paul == <<"P","a","u","l">>
s_sew == <<"s","e","w">>

Opp(title, description, city, type, age, group, maxGroup, skills, signup, missing) ==
  [id |-> 0,
   title |-> title,
   description |-> description,
   location |-> [city |-> city, facility |-> "Facility"],
   schedule |-> [type |-> type, details |-> "See schedule"],
   requirements |-> [age_minimum |-> age, skills |-> skills,
                     group_friendly |-> group, max_group_size |-> maxGroup],
   contact |-> [phone |-> "(612) 204-8435", email |-> "volunteer@cctwincities.org"],
   signup_url |-> signup,
   source_url |-> "https://cctwincities.org/volunteer",
   missing |-> missing]

\* max_group_size 0 stands for JSON null
OppPool ==
  <<Opp(s_WarmMeal, s_ServeLunch, s_Minneapolis, "flexible", 14, TRUE, 15,
        <<s_Cooking>>, "https://signup/meal", {}),
    Opp(s_SewingCircle, s_MendCoats, s_SaintPaul, "one-time", 18, FALSE, 0,
        <<s_Sewing>>, null, {}),
    Opp(s_FoodDrive, s_SortMEALS, s_StPaul, "flexible", 16, TRUE, 0,
        <<>>, "https://signup/food", {}),
    Opp(s_MealPrep, <<>>, s_Maplewood, "weekly", 18, FALSE, 0,
        <<>>, null, {"description", "skills"})>>

\* the lists of at most n pool records; the id of a record is its position
OppLists(n) ==
  UNION {{[i \in 1..k |-> [OppPool[f[i]] EXCEPT !.id = i]] :
            f \in [1..k -> 1..Len(OppPool)]} : k \in 0..n}

GeneralInfos ==
  {[main_contact |-> [email |-> "volunteer@cctwincities.org",
                      phone |-> "(612) 204-8435"]],
   [main_contact |-> [email |-> "serve@cctwincities.org",
                      phone |-> "(651) 647-2588"]]}

VolunteerSections ==
  {[opportunities |-> l, opportunities_is_array |-> TRUE,
    general_info |-> g, missing |-> {}] :
     l \in OppLists(MaxOpps), g \in GeneralInfos}
  \cup
  {[opportunities |-> l, opportunities_is_array |-> TRUE,
    general_info |-> CHOOSE g \in GeneralInfos : TRUE,
    missing |-> {"general_info"}] : l \in OppLists(MaxOpps)}

OnlineVariants ==
  {[donation_page_url |-> "https://give/online", types |-> t,
    notes |-> "All gifts are tax deductible.",
    contact |-> [phone |-> "(612) 204-8374", email |-> "giving.info@cctwincities.org"],
    missing |-> {}] : t \in {<<>>, <<"One-time">>, <<"One-time", "Monthly">>}}
  \cup
  {[donation_page_url |-> "https://give/online", types |-> <<>>,
    notes |-> "All gifts are tax deductible.",
    contact |-> [phone |-> "(612) 204-8374", email |-> "giving.info@cctwincities.org"],
    missing |-> {"types"}]}

AcceptedItemsVariants ==
  {<<>>,
   <<[category |-> "Winter Gear", details |-> "Coats, gloves", restrictions |-> null]>>,
   <<[category |-> "Winter Gear", details |-> "Coats, gloves", restrictions |-> null],
     [category |-> "Hygiene", details |-> "Soap", restrictions |-> "Travel size only"]>>}

InKindOf(items, missing) ==
  [accepted_items |-> items,
   not_accepted |-> <<"Used clothing", "Furniture">>,
   drop_off_locations |->
     <<[name |-> "Distribution Center", address |-> "341 Chester St",
        hours |-> "Mon-Fri 9am-4pm", phone |-> "(651) 647-2588",
        email |-> "inkind@cctwincities.org"]>>,
   policies |-> <<"New items only">>,
   wishlist_url |-> "https://give/wishlist",
   missing |-> missing]

InKindVariants ==
  {InKindOf(items, {}) : items \in AcceptedItemsVariants}
  \cup {InKindOf(<<>>, {"accepted_items"})}

VehicleVariants ==
  {[process_description |-> d, phone |-> "1-877-952-2872",
    program_url |-> "https://give/vehicle", missing |-> {}] :
     d \in {"Free pickup.", "Free pickup, tax deductible."}}

DonationSections ==
  {[online |-> o, in_kind |-> k, vehicle |-> v, missing |-> m] :
     o \in OnlineVariants, k \in InKindVariants, v \in VehicleVariants,
     m \in {{}, {"online"}, {"vehicle"}}}

s_FoodServices == <<"F","o","o","d"," ","S","e","r","v","i","c","e","s">>
s_FreeMeals == <<"F","r","e","e"," ","m","e","a","l","s"," ","d","a","i","l","y">>
s_food == <<"f","o","o","d">>
s_meal == <<"m","e","a","l">>
s_Housing == <<"H","o","u","s","i","n","g"," ","F","i","r","s","t">>
s_ShelterBeds == <<"E","m","e","r","g","e","n","c","y"," ","S","h","e","l","t","e","r"," ","b","e","d","s">>
s_shelter == <<"s","h","e","l","t","e","r">>
s_Aging == <<"A","g","i","n","g"," ","S","e","r","v","i","c","e","s">>
s_SeniorCare == <<"S","u","p","p","o","r","t"," ","f","o","r"," ","s","e","n","i","o","r","s">>
s_senior == <<"s","e","n","i","o","r">>

ServicePool ==
  <<[name |-> s_FoodServices, description |-> s_FreeMeals,
     keywords |-> <<s_food, s_meal>>],
    [name |-> s_Housing, description |-> s_ShelterBeds,
     keywords |-> <<s_shelter>>],
    [name |-> s_Aging, description |-> s_SeniorCare,
     keywords |-> <<s_senior>>]>>

MaxServices == 2    \* longest organization.services list drawn

ServiceLists(n) ==
  UNION {{[i \in 1..k |-> ServicePool[f[i]]] :
            f \in [1..k -> 1..Len(ServicePool)]} : k \in 0..n}

OrgOf(services, missing) ==
  [mission |-> "We serve those most in need.",
   source_url |-> "https://cctwincities.org",
   service_area |-> "Twin Cities metro",
   about |-> [history |-> "Serving since the 19th century.",
              founded |-> 1869,
              stats |-> [people_served_annually |-> 30000,
                         meals_served_annually |-> 1000000,
                         nights_of_housing_provided_annually |-> 550000,
                         volunteers_annually |-> 10000,
                         volunteer_hours_annually |-> 150000,
                         years_operating |-> 155]],
   services |-> services,
   contact |-> [main_phone |-> "(612) 204-8500",
                main_email |-> "info@cctwincities.org",
                hours |-> "Mon-Fri 8am-4:30pm"],
   locations |-> <<[name |-> "Higher Ground", address |-> "165 Glenwood Ave",
                    phone |-> "(612) 204-8552"],
                   [name |-> "Dorothy Day Place", address |-> "411 Main St",
                    phone |-> null]>>,
   upcoming_events |-> <<[name |-> "Gala", date |-> "May 1",
                          description |-> "Annual benefit",
                          url |-> "https://cctwincities.org/gala"]>>,
   missing |-> missing]

OrganizationSections ==
  {OrgOf(l, m) : l \in ServiceLists(MaxServices), m \in {{}, {"about"}}}
  \cup {OrgOf(<<>>, {"services"})}

DefaultVolunteer ==
  [opportunities |-> <<[OppPool[1] EXCEPT !.id = 1], [OppPool[3] EXCEPT !.id = 2]>>,
   opportunities_is_array |-> TRUE,
   general_info |-> [main_contact |-> [email |-> "volunteer@cctwincities.org",
                                      phone |-> "(612) 204-8435"]],
   missing |-> {}]

DefaultDonations ==
  [online |-> CHOOSE o \in OnlineVariants : Len(o.types) = 2,
   in_kind |-> InKindOf(CHOOSE i \in AcceptedItemsVariants : Len(i) = 2, {}),
   vehicle |-> CHOOSE v \in VehicleVariants : v.process_description = "Free pickup.",
   missing |-> {}]

DefaultOrganization == OrgOf(<<ServicePool[1], ServicePool[2]>>, {})

Store(v, d, o) ==
  [volunteer |-> v, donations |-> d, organization |-> o, missing |-> {}]

GoodStore == Store(DefaultVolunteer, DefaultDonations, DefaultOrganization)

\* a store that passes the startup validation and holds records that lack
\* fields: an opportunity without description and requirements.skills, no
\* vehicle section, no organization.about
FlawedStore ==
  Store([DefaultVolunteer EXCEPT
           !.opportunities = <<[OppPool[1] EXCEPT !.id = 1],
                               [OppPool[4] EXCEPT !.id = 2]>>],
        [DefaultDonations EXCEPT !.missing = {"vehicle"}],
        OrgOf(<<ServicePool[1]>>, {"about"}))

TopLevelKeys == {"volunteer", "donations", "organization"}

\* contents of CC.json: text that is not JSON, the JSON value null, or an
\* object, which may lack top-level keys or hold a volunteer.opportunities
\* that is not an array
DataFiles ==
  {[kind |-> "unparseable"], [kind |-> "null"]}
  \cup {[kind |-> "object", json |-> [GoodStore EXCEPT !.missing = m]] :
          m \in SUBSET TopLevelKeys}
  \cup {[kind |-> "object", json |-> FlawedStore]}
  \cup {[kind |-> "object",
         json |-> [GoodStore EXCEPT !.volunteer.opportunities_is_array = FALSE]]}

\* parameter sets the schemas accept
Restrict(f, K) == [k \in K |-> f[k]]

VolunteerParams ==
  {Restrict(full, K) :
     full \in [keyword : {<<>>, s_MEALS, s_Meal},
               city : {s_Paul},
               schedule_type : {"flexible"},
               age_minimum : {0, 16},
               group_friendly : BOOLEAN,
               skill : {s_sew}],
     K \in SUBSET CriteriaNames}

DonationParams == [type : DonationTypes]

w_Mission == <<"M","i","s","s","i","o","n">>
w_mission == <<"m","i","s","s","i","o","n">>
w_what == <<"w","h","a","t">>
w_do == <<"d","o">>
w_help == <<"h","e","l","p">>
w_shelter == <<"s","h","e","l","t","e","r">>
w_where == <<"w","h","e","r","e">>
w_events == <<"e","v","e","n","t","s">>
w_stats == <<"s","t","a","t","s">>

QueryWords ==
  {<<>>, w_Mission, w_mission, w_what, w_do, w_help, w_shelter, w_where,
   w_events, w_stats}

\* the queries of at most n words separated by single spaces; the empty word
\* gives leading, trailing and consecutive spaces
Queries(n) ==
  UNION {{Join(ws, <<" ">>) : ws \in [1..k -> QueryWords]} : k \in 0..n}

SearchParams == [query : Queries(MaxWords)]

-----------------------------------------------------------------------------
(* The process *)

Undefined == [undefined |-> TRUE]

WidgetPlaceholder == "<h2>Widget Not Built</h2>"
WidgetFiles == {"unreadable", "<html>volunteer widget</html>"}

SessionIds == 1..MaxSessions

NoRequest == [request |-> "none"]

\* build-widget.js lines 161-163: the initial state of the component
InitialState == [data |-> Undefined, filterCity |-> <<>>, filterSchedule |-> ""]

\* no widget document has been rendered by a host
NoWidget ==
  [mounted |-> FALSE, toolOutput |-> Undefined, widgetState |-> Undefined,
   state |-> InitialState, next |-> InitialState, effects |-> <<>>,
   lastCall |-> [method |-> "none"],
   atMount |-> Undefined, touched |-> FALSE, cleared |-> FALSE]

\* the state at the first statement of the script
InitProcess ==
  /\ pc = "load_data"
  /\ dataFile \in DataFiles
  /\ widgetFile \in WidgetFiles
  /\ NODE_ENV \in {"production", "development"}
  /\ ccData = Undefined
  /\ volunteerWidgetHtml = ""
  /\ transports = <<>>
  /\ created = 0
  /\ closed = {}
  /\ last = NoRequest
  /\ errorLog = {}
  /\ widget = NoWidget
  /\ observed = NoRequest
  /\ hits = <<>>

\* the validation without the Array.isArray test
ValidStructureKeysOnly(json) == json.missing = {}

\* lines 21-27: the validation of the parsed document
ValidStructure(json) ==
  /\ json.missing = {}
  /\ json.volunteer.opportunities_is_array

\* lines 17-33
LoadData ==
  /\ pc = "load_data"
  /\ IF dataFile.kind = "unparseable"
     THEN /\ pc' = "exited"
          /\ UNCHANGED ccData
     ELSE IF dataFile.kind = "null"
     THEN /\ ccData' = [null |-> TRUE]
          /\ pc' = "exited"
     ELSE /\ ccData' = dataFile.json
          /\ pc' = IF ValidStructure(dataFile.json) THEN "load_widget" ELSE "exited"
  /\ UNCHANGED <<dataFile, widgetFile, NODE_ENV, volunteerWidgetHtml,
                 transports, created, last, errorLog>>
  /\ UNCHANGED <<closed, widget, observed, hits>>

\* the load without the catch branches: an unreadable file leaves the
\* initial empty string
LoadWidgetNoPlaceholder ==
  /\ pc = "load_widget"
  /\ volunteerWidgetHtml' = IF widgetFile # "unreadable" THEN widgetFile ELSE ""
  /\ pc' = "listen"
  /\ UNCHANGED <<dataFile, widgetFile, NODE_ENV, ccData,
                 transports, created, last, errorLog>>
  /\ UNCHANGED <<closed, widget, observed, hits>>

\* lines 36-53
LoadWidget ==
  /\ pc = "load_widget"
  /\ IF widgetFile # "unreadable"
     THEN /\ volunteerWidgetHtml' = widgetFile
          /\ pc' = "listen"
     ELSE IF NODE_ENV = "production"
     THEN /\ pc' = "exited"
          /\ UNCHANGED volunteerWidgetHtml
     ELSE /\ volunteerWidgetHtml' = WidgetPlaceholder
          /\ pc' = "listen"
  /\ UNCHANGED <<dataFile, widgetFile, NODE_ENV, ccData,
                 transports, created, last, errorLog>>
  /\ UNCHANGED <<closed, widget, observed, hits>>

\* lines 473-579: the app is set up and app.listen is called
Listen ==
  /\ pc = "listen"
  /\ pc' = "listening"
  /\ UNCHANGED <<dataFile, widgetFile, NODE_ENV, ccData, volunteerWidgetHtml,
                 transports, created, last, errorLog>>
  /\ UNCHANGED <<closed, widget, observed, hits>>

\* line 495: max
max == 100

\* line 498: message
TooManyMessage == "Too many requests from this IP, please try again later."

\* the limiter mounted on /messages only
LimitedPathsMessagesOnly == {"/messages"}

\* lines 500-501: the paths the limiter is mounted on
LimitedPaths == {"/mcp", "/messages"}

\* lines 493-501: what stands in front of the routes of a path, for a request
\* that reaches its route.  On a limited path the request is counted under
\* the client's address and, the count not exceeding max, handed on.  Every
\* request comes from the one client address; hits has an entry for it in the
\* specifications that follow the limiter's store, and none in the others.
limiter(path) ==
  IF path \in LimitedPaths
  THEN /\ \A a \in DOMAIN hits : hits[a] < max
       /\ hits' = [a \in DOMAIN hits |-> hits[a] + 1]
  ELSE UNCHANGED hits

\* lines 493-501: the limiter for a request over the limit: it is counted and
\* answered 429 with the configured message; the route is not called
TooManyRequests(path, request) ==
  /\ pc = "listening"
  /\ path \in LimitedPaths
  /\ \E a \in DOMAIN hits : hits[a] >= max /\ hits[a] < max + MaxOver
  /\ hits' = [a \in DOMAIN hits |-> hits[a] + 1]
  /\ last' = [request |-> request, status |-> 429, body |-> TooManyMessage]
  /\ UNCHANGED <<pc, dataFile, widgetFile, NODE_ENV, ccData,
                 volunteerWidgetHtml, transports, created, closed, errorLog,
                 widget, observed>>

\* line 494: windowMs has passed since the window began; the count restarts
WindowExpires ==
  /\ pc = "listening"
  /\ \E a \in DOMAIN hits : hits[a] > 0
  /\ hits' = [a \in DOMAIN hits |-> 0]
  /\ UNCHANGED <<pc, dataFile, widgetFile, NODE_ENV, ccData,
                 volunteerWidgetHtml, transports, created, closed, last,
                 errorLog, widget, observed>>

\* a route that connects every transport to one McpServer made at startup
GetMcpSharedServer(connects) ==
  /\ pc = "listening"
  /\ created < MaxSessions
  /\ LET sessionId == created + 1
     IN /\ created' = sessionId
        /\ transports' =
             [s \in DOMAIN transports \cup {sessionId} |->
                IF s = sessionId
                THEN [sessionId |-> sessionId, server |-> 1,
                      connected |-> connects]
                ELSE transports[s]]
        /\ last' = [request |-> "GET /mcp", sessionId |-> sessionId,
                    status |-> IF connects THEN 200 ELSE 500]
  /\ UNCHANGED <<pc, dataFile, widgetFile, NODE_ENV, ccData,
                 volunteerWidgetHtml, errorLog>>
  /\ UNCHANGED <<closed, widget, observed>>
  /\ limiter("/mcp")

\* lines 509-535: GET /mcp.  The transport is stored before server.connect,
\* which succeeds or throws.
GetMcp(connects) ==
  /\ pc = "listening"
  /\ created < MaxSessions
  /\ LET sessionId == created + 1
     IN /\ created' = sessionId
        /\ transports' =
             [s \in DOMAIN transports \cup {sessionId} |->
                IF s = sessionId
                THEN [sessionId |-> sessionId, server |-> sessionId,
                      connected |-> connects]
                ELSE transports[s]]
        /\ last' = [request |-> "GET /mcp", sessionId |-> sessionId,
                    status |-> IF connects THEN 200 ELSE 500]
  /\ UNCHANGED <<pc, dataFile, widgetFile, NODE_ENV, ccData,
                 volunteerWidgetHtml, errorLog>>
  /\ UNCHANGED <<closed, widget, observed>>
  /\ limiter("/mcp")

\* an onclose handler that logs the close and leaves the registry alone
CloseKeepsEntry(sessionId) ==
  /\ pc = "listening"
  /\ sessionId \in DOMAIN transports
  /\ closed' = closed \cup {sessionId}
  /\ UNCHANGED <<pc, dataFile, widgetFile, NODE_ENV, ccData,
                 volunteerWidgetHtml, transports, created, last, errorLog>>
  /\ UNCHANGED <<widget, observed, hits>>

\* lines 520-523: transport.onclose
Close(sessionId) ==
  /\ pc = "listening"
  /\ sessionId \in DOMAIN transports
  /\ closed' = closed \cup {sessionId}
  /\ transports' = [s \in DOMAIN transports \ {sessionId} |-> transports[s]]
  /\ UNCHANGED <<pc, dataFile, widgetFile, NODE_ENV, ccData,
                 volunteerWidgetHtml, created, last, errorLog>>
  /\ UNCHANGED <<widget, observed, hits>>

\* a route without the test for a missing sessionId
PostMessagesRejectedNoIdCheck(sessionId) ==
  /\ pc = "listening"
  /\ sessionId \in SessionIds \cup {0}
  /\ sessionId \notin DOMAIN transports
  /\ last' = [request |-> "POST /messages", sessionId |-> sessionId,
              status |-> 404]
  /\ UNCHANGED <<pc, dataFile, widgetFile, NODE_ENV, ccData,
                 volunteerWidgetHtml, transports, created, errorLog>>
  /\ UNCHANGED <<closed, widget, observed>>
  /\ limiter("/messages")

\* lines 538-555: POST /messages that is not dispatched to a transport
PostMessagesRejected(sessionId) ==
  /\ pc = "listening"
  /\ sessionId \in SessionIds \cup {0}
  /\ sessionId \notin DOMAIN transports
  /\ last' = [request |-> "POST /messages", sessionId |-> sessionId,
              status |-> IF sessionId = 0 THEN 400 ELSE 404]
  /\ UNCHANGED <<pc, dataFile, widgetFile, NODE_ENV, ccData,
                 volunteerWidgetHtml, transports, created, errorLog>>
  /\ UNCHANGED <<closed, widget, observed>>
  /\ limiter("/messages")

\* lines 549 and 556-565: POST /messages for a session whose registry entry
\* holds a transport that server.connect did not start.  The entry is found
\* and handlePostMessage is called on its transport, which has no SSE stream
\* to answer on: it responds 500 and throws, and the catch block, the headers
\* being sent, only logs.
PostMessagesFailed(sessionId) ==
  /\ pc = "listening"
  /\ sessionId \in DOMAIN transports
  /\ ~transports[sessionId].connected
  /\ last' = [request |-> "POST /messages", sessionId |-> sessionId,
              transport |-> transports[sessionId].sessionId, status |-> 500]
  /\ UNCHANGED <<pc, dataFile, widgetFile, NODE_ENV, ccData,
                 volunteerWidgetHtml, transports, created, errorLog>>
  /\ UNCHANGED <<closed, widget, observed>>
  /\ limiter("/messages")

\* lines 569-571
Health ==
  /\ pc = "listening"
  /\ last' = [request |-> "GET /health", status |-> 200]
  /\ UNCHANGED <<pc, dataFile, widgetFile, NODE_ENV, ccData,
                 volunteerWidgetHtml, transports, created, errorLog>>
  /\ UNCHANGED <<closed, widget, observed>>
  /\ limiter("/health")

\* a handler wrapper that answers from a cache keyed by the tool name alone
ToolCallCachedByTool(sessionId, tool, params, try, outcome) ==
  /\ pc = "listening"
  /\ sessionId \in DOMAIN transports
  /\ transports[sessionId].connected
  /\ last' = [request |-> "tools/call", sessionId |-> sessionId,
              transport |-> transports[sessionId].sessionId, status |-> 202, tool |-> tool, params |-> params,
              outcome |-> IF last.request = "tools/call" /\ last.tool = tool
                          THEN last.outcome ELSE outcome]
  /\ errorLog' = IF try.threw THEN errorLog \cup {tool} ELSE errorLog
  /\ UNCHANGED <<pc, dataFile, widgetFile, NODE_ENV, ccData,
                 volunteerWidgetHtml, transports, created>>
  /\ UNCHANGED <<closed, widget, observed>>
  /\ limiter("/messages")

\* lines 557-559 and the handler registered by server.tool: a tools/call
\* message posted to a live session runs the handler of the session's server
ToolCall(sessionId, tool, params, try, outcome) ==
  /\ pc = "listening"
  /\ sessionId \in DOMAIN transports
  /\ transports[sessionId].connected
  /\ last' = [request |-> "tools/call", sessionId |-> sessionId,
              transport |-> transports[sessionId].sessionId, status |-> 202, tool |-> tool, params |-> params,
              outcome |-> outcome]
  /\ errorLog' = IF try.threw THEN errorLog \cup {tool} ELSE errorLog
  /\ UNCHANGED <<pc, dataFile, widgetFile, NODE_ENV, ccData,
                 volunteerWidgetHtml, transports, created>>
  /\ UNCHANGED <<closed, widget, observed>>
  /\ limiter("/messages")

\* a handler that filters the stored list in place: the filtered list is
\* written back to ccData.volunteer.opportunities
CallVolunteerInPlace(sessionId, params) ==
  /\ pc = "listening"
  /\ sessionId \in DOMAIN transports
  /\ transports[sessionId].connected
  /\ last' = [request |-> "tools/call", sessionId |-> sessionId,
              transport |-> transports[sessionId].sessionId, status |-> 202, tool |-> "get_volunteer_opportunities",
              params |-> params,
              outcome |-> get_volunteer_opportunities(ccData, params)]
  /\ errorLog' = IF VolunteerTry(ccData, params).threw
                 THEN errorLog \cup {"get_volunteer_opportunities"} ELSE errorLog
  /\ ccData' = IF ApplyFilters(ccData, params).threw THEN ccData
               ELSE [ccData EXCEPT !.volunteer.opportunities =
                                      ApplyFilters(ccData, params).value]
  /\ UNCHANGED <<pc, dataFile, widgetFile, NODE_ENV,
                 volunteerWidgetHtml, transports, created>>
  /\ UNCHANGED <<closed, widget, observed>>
  /\ limiter("/messages")

\* lines 88-101: a resources/read message for the widget, posted to a live
\* session, is answered by the resource callback of the session's server
ReadWidget(sessionId) ==
  /\ pc = "listening"
  /\ sessionId \in DOMAIN transports
  /\ transports[sessionId].connected
  /\ last' = [request |-> "resources/read", sessionId |-> sessionId,
              transport |-> transports[sessionId].sessionId, status |-> 202,
              contents |-> <<[uri |-> "ui://widget/volunteer-list.html",
                              mimeType |-> "text/html",
                              text |-> volunteerWidgetHtml]>>]
  /\ UNCHANGED <<pc, dataFile, widgetFile, NODE_ENV, ccData,
                 volunteerWidgetHtml, transports, created, errorLog>>
  /\ UNCHANGED <<closed, widget, observed>>
  /\ limiter("/messages")

CallVolunteer(sessionId, params) ==
  ToolCall(sessionId, "get_volunteer_opportunities", params,
           VolunteerTry(ccData, params),
           get_volunteer_opportunities(ccData, params))

CallDonation(sessionId, params) ==
  ToolCall(sessionId, "get_donation_options", params,
           DonationTry(ccData, params),
           get_donation_options(ccData, params))

CallSearch(sessionId, params) ==
  ToolCall(sessionId, "search_org_info", params,
           SearchTry(ccData, params),
           search_org_info(ccData, params))

Init == InitProcess

\* the tools/call messages posted to the sessions of the whole server: calls
\* that succeed on every store and calls that fault on the flawed one
SessionVolunteerParams ==
  {p \in VolunteerParams :
     \/ p = <<>>
     \/ DOMAIN p = {"city"}
     \/ DOMAIN p = {"keyword"} /\ p.keyword = s_Meal
     \/ DOMAIN p = {"skill"}}

SessionSearchParams ==
  {[query |-> q] : q \in {w_Mission, w_help, w_where, w_do}}

Next ==
  \/ LoadData
  \/ LoadWidget
  \/ Listen
  \/ \E connects \in BOOLEAN : GetMcp(connects)
  \/ \E s \in SessionIds : Close(s)
  \/ \E s \in SessionIds \cup {0} : PostMessagesRejected(s)
  \/ \E s \in SessionIds : PostMessagesFailed(s)
  \/ Health
  \/ \E s \in SessionIds : ReadWidget(s)
  \/ \E s \in SessionIds, p \in SessionVolunteerParams : CallVolunteer(s, p)
  \/ \E s \in SessionIds, p \in DonationParams : CallDonation(s, p)
  \/ \E s \in SessionIds, p \in SessionSearchParams : CallSearch(s, p)

Spec == Init /\ [][Next]_vars

\* a server that is listening with one established session
Listening(data) ==
  /\ pc = "listening"
  /\ dataFile = [kind |-> "object", json |-> data]
  /\ widgetFile = "<html>volunteer widget</html>"
  /\ NODE_ENV = "production"
  /\ ccData = data
  /\ volunteerWidgetHtml = widgetFile
  /\ transports = <<[sessionId |-> 1, server |-> 1, connected |-> TRUE]>>
  /\ created = 1
  /\ closed = {}
  /\ last = NoRequest
  /\ errorLog = {}
  /\ widget = NoWidget
  /\ observed = NoRequest
  /\ hits = <<>>

(* get_volunteer_opportunities applied to every volunteer section drawn *)
InitVolunteer ==
  \E v \in VolunteerSections :
    Listening(Store(v, DefaultDonations, DefaultOrganization))

\* one invocation per drawn store
ApplyVolunteer(p) == last = NoRequest /\ CallVolunteer(1, p)

NextVolunteer == \E p \in VolunteerParams : ApplyVolunteer(p)

SpecVolunteer == InitVolunteer /\ [][NextVolunteer]_vars

(* get_donation_options applied to every donations section drawn *)
InitDonation ==
  \E d \in DonationSections :
    Listening(Store(DefaultVolunteer, d, DefaultOrganization))

ApplyDonation(p) == last = NoRequest /\ CallDonation(1, p)

NextDonation == \E p \in DonationParams : ApplyDonation(p)

SpecDonation == InitDonation /\ [][NextDonation]_vars

(* search_org_info applied to every organization section drawn *)
InitSearch ==
  \E o \in OrganizationSections :
    Listening(Store(DefaultVolunteer, DefaultDonations, o))

ApplySearch(p) == last = NoRequest /\ CallSearch(1, p)

NextSearch == \E p \in SearchParams : ApplySearch(p)

SpecSearch == InitSearch /\ [][NextSearch]_vars

(* the three tools called again and again in several sessions, and a client
   that keeps one of the results it received *)
SessionParams(tool) ==
  IF tool = "get_volunteer_opportunities" THEN SessionVolunteerParams
  ELSE IF tool = "get_donation_options" THEN DonationParams
  ELSE SessionSearchParams

\* lines 513 and 559: the result of a tools/call is written to the SSE stream
\* of the session; the client keeps the one it has just received
Observe ==
  /\ observed = NoRequest
  /\ last.request = "tools/call"
  /\ observed' = last
  /\ UNCHANGED <<pc, dataFile, widgetFile, NODE_ENV, ccData, volunteerWidgetHtml,
                 transports, created, closed, last, errorLog, widget, hits>>

InitRepeat == \E d \in {GoodStore, FlawedStore} : Listening(d)

NextRepeat ==
  \/ GetMcp(TRUE)
  \/ Health
  \/ \E s \in SessionIds, p \in SessionVolunteerParams : CallVolunteer(s, p)
  \/ \E s \in SessionIds, p \in DonationParams : CallDonation(s, p)
  \/ \E s \in SessionIds, p \in SessionSearchParams : CallSearch(s, p)
  \/ Observe

SpecRepeat == InitRepeat /\ [][NextRepeat]_vars

-----------------------------------------------------------------------------
(* The volunteer widget (build-widget.js, component VolunteerList): the     *)
(* React state of the component, the globals of window.openai it reads and *)
(* the calls it makes on window.openai.  A render commits the state; the    *)
(* effects of a commit run in declaration order; state set by an effect or *)
(* by an event handler is committed by the next render.                     *)

NoCall == [method |-> "none"]

\* the last request served is a get_volunteer_opportunities call that
\* returned structured content
IsVolunteerList ==
  /\ last.request = "tools/call"
  /\ last.tool = "get_volunteer_opportunities"
  /\ "structuredContent" \in DOMAIN last.outcome.value

\* local filters of which the schedule filter is tried only when no city
\* filter is set
filteredOppsElseIf(state) ==
  LET opportunities == state.data.opportunities
  IN IF state.filterCity # <<>>
     THEN SelectSeq(opportunities,
                    LAMBDA opp : Includes(ToLowerCase(opp.location.city),
                                          ToLowerCase(state.filterCity)))
     ELSE IF state.filterSchedule # ""
     THEN SelectSeq(opportunities,
                    LAMBDA opp : opp.schedule.type = state.filterSchedule)
     ELSE opportunities

\* lines 191-202: the local filters
filteredOpps(state) ==
  LET opportunities == state.data.opportunities
      byCity == IF state.filterCity # <<>>
                THEN SelectSeq(opportunities,
                               LAMBDA opp : Includes(ToLowerCase(opp.location.city),
                                                     ToLowerCase(state.filterCity)))
                ELSE opportunities
  IN IF state.filterSchedule # ""
     THEN SelectSeq(byCity, LAMBDA opp : opp.schedule.type = state.filterSchedule)
     ELSE byCity

\* lines 185-187, 235-271 and 276: the view the component returns
View(state) ==
  IF state.data = Undefined THEN "loading"
  ELSE IF Len(filteredOpps(state)) = 0
          /\ (state.filterCity # <<>> \/ state.filterSchedule # "")
  THEN "no_match"
  ELSE IF Len(state.data.opportunities) = 0 THEN "no_opportunities"
  ELSE "list"

\* lines 273-274: the options of the two select elements
cities(state) ==
  {state.data.opportunities[i].location.city :
     i \in 1..Len(state.data.opportunities)}

scheduleTypes(state) ==
  {state.data.opportunities[i].schedule.type :
     i \in 1..Len(state.data.opportunities)}

\* widgetState.<key> || ''
StoredOr(widgetState, key, empty) ==
  IF key \in DOMAIN widgetState THEN widgetState[key] ELSE empty

\* lines 166-176: the mount effect
RestoreEffect(w) ==
  IF w.toolOutput # Undefined
  THEN IF w.widgetState # Undefined
       THEN [w EXCEPT !.next = [data |-> w.toolOutput,
                                filterCity |->
                                  StoredOr(w.widgetState, "filterCity", <<>>),
                                filterSchedule |->
                                  StoredOr(w.widgetState, "filterSchedule", "")]]
       ELSE [w EXCEPT !.next.data = w.toolOutput]
  ELSE w

\* lines 179-183: the effect on [filterCity, filterSchedule]
SaveEffect(w) ==
  [w EXCEPT !.widgetState = [filterCity |-> w.state.filterCity,
                             filterSchedule |-> w.state.filterSchedule]]

\* lines 217-223
handleAskAboutOpportunity(w, opp) ==
  [w EXCEPT !.lastCall = [handler |-> "handleAskAboutOpportunity",
                          method |-> "sendFollowUpMessage",
                          message |-> <<T("Tell me more about the \""), S(opp.title),
                                        T("\" volunteer opportunity")>>]]

\* lines 225-231
handleShowDonations(w) ==
  [w EXCEPT !.lastCall = [handler |-> "handleShowDonations",
                          method |-> "sendFollowUpMessage",
                          message |-> <<T("Show me donation options for Catholic Charities Twin Cities")>>]]

\* the widget state persisted by the host when the widget is rendered
WidgetStates ==
  {Undefined, [filterCity |-> s_Minneapolis]}
  \cup [filterCity : {<<>>, s_StPaul}, filterSchedule : {"", "flexible"}]

\* the component has nothing left to run: effects flushed, state committed
Idle == widget.mounted /\ widget.effects = <<>> /\ widget.next = widget.state

\* the mount with the two effects declared in the other order
MountSaveFirst(widgetState) ==
  /\ ~widget.mounted
  /\ widget' = [mounted |-> TRUE,
                toolOutput |-> IF IsVolunteerList
                               THEN last.outcome.value.structuredContent
                               ELSE Undefined,
                widgetState |-> widgetState,
                state |-> InitialState,
                next |-> InitialState,
                effects |-> <<"save", "restore">>,
                lastCall |-> NoCall,
                atMount |-> widgetState,
                touched |-> FALSE,
                cleared |-> FALSE]
  /\ UNCHANGED <<pc, dataFile, widgetFile, NODE_ENV, ccData, volunteerWidgetHtml,
                 transports, created, closed, last, errorLog, observed, hits>>

\* lines 74-76 and 161-164: the host renders the document, the component
\* mounts with its initial state; window.openai carries the structured
\* content of the tool result, when there is one, and the persisted state.
\* atMount keeps the persisted state the host handed over, touched tells
\* whether a filter control has been used since, cleared whether the last
\* control used was a clear button.
Mount(widgetState) ==
  /\ ~widget.mounted
  /\ widget' = [mounted |-> TRUE,
                toolOutput |-> IF IsVolunteerList
                               THEN last.outcome.value.structuredContent
                               ELSE Undefined,
                widgetState |-> widgetState,
                state |-> InitialState,
                next |-> InitialState,
                effects |-> <<"restore", "save">>,
                lastCall |-> NoCall,
                atMount |-> widgetState,
                touched |-> FALSE,
                cleared |-> FALSE]
  /\ UNCHANGED <<pc, dataFile, widgetFile, NODE_ENV, ccData, volunteerWidgetHtml,
                 transports, created, closed, last, errorLog, observed, hits>>

\* the next effect of the last commit runs
RunEffect ==
  /\ widget.mounted
  /\ widget.effects # <<>>
  /\ LET ran == IF Head(widget.effects) = "restore"
                THEN RestoreEffect(widget) ELSE SaveEffect(widget)
     IN widget' = [ran EXCEPT !.effects = Tail(widget.effects)]
  /\ UNCHANGED <<pc, dataFile, widgetFile, NODE_ENV, ccData, volunteerWidgetHtml,
                 transports, created, closed, last, errorLog, observed, hits>>

\* the state set since the last commit is rendered and committed; the save
\* effect is scheduled when one of its dependencies changed
Render ==
  /\ widget.mounted
  /\ widget.effects = <<>>
  /\ widget.next # widget.state
  /\ widget' = [widget EXCEPT
                  !.state = widget.next,
                  !.effects =
                    IF \/ widget.next.filterCity # widget.state.filterCity
                       \/ widget.next.filterSchedule # widget.state.filterSchedule
                    THEN <<"save">> ELSE <<>>]
  /\ UNCHANGED <<pc, dataFile, widgetFile, NODE_ENV, ccData, volunteerWidgetHtml,
                 transports, created, closed, last, errorLog, observed, hits>>

\* line 301: the city select
SelectCity(city) ==
  /\ Idle
  /\ View(widget.state) = "list"
  /\ city \in cities(widget.state) \cup {<<>>}
  /\ widget' = [widget EXCEPT !.next.filterCity = city, !.touched = TRUE,
                              !.cleared = FALSE]
  /\ UNCHANGED <<pc, dataFile, widgetFile, NODE_ENV, ccData, volunteerWidgetHtml,
                 transports, created, closed, last, errorLog, observed, hits>>

\* line 324: the schedule select
SelectSchedule(type) ==
  /\ Idle
  /\ View(widget.state) = "list"
  /\ type \in scheduleTypes(widget.state) \cup {""}
  /\ widget' = [widget EXCEPT !.next.filterSchedule = type, !.touched = TRUE,
                              !.cleared = FALSE]
  /\ UNCHANGED <<pc, dataFile, widgetFile, NODE_ENV, ccData, volunteerWidgetHtml,
                 transports, created, closed, last, errorLog, observed, hits>>

\* a clear button that resets the city filter only
ClickClearCityOnly ==
  /\ Idle
  /\ \/ View(widget.state) = "no_match"
     \/ /\ View(widget.state) = "list"
        /\ (widget.state.filterCity # <<>> \/ widget.state.filterSchedule # "")
  /\ widget' = [widget EXCEPT !.next.filterCity = <<>>,
                              !.touched = TRUE, !.cleared = TRUE]
  /\ UNCHANGED <<pc, dataFile, widgetFile, NODE_ENV, ccData, volunteerWidgetHtml,
                 transports, created, closed, last, errorLog, observed, hits>>

\* lines 240-243 ('Clear Filters') and 341-346 ('Clear')
ClickClear ==
  /\ Idle
  /\ \/ View(widget.state) = "no_match"
     \/ /\ View(widget.state) = "list"
        /\ (widget.state.filterCity # <<>> \/ widget.state.filterSchedule # "")
  /\ widget' = [widget EXCEPT !.next.filterCity = <<>>, !.next.filterSchedule = "",
                              !.touched = TRUE, !.cleared = TRUE]
  /\ UNCHANGED <<pc, dataFile, widgetFile, NODE_ENV, ccData, volunteerWidgetHtml,
                 transports, created, closed, last, errorLog, observed, hits>>

\* lines 147-158: after the mount the host sets window.openai.toolOutput and
\* dispatches openai:setGlobal.  The only listener is the one of
\* useOpenAiGlobal('displayMode'): its snapshot is unchanged, so nothing is
\* rendered, and the mount effect, with no dependencies, does not run again.
SetGlobal ==
  /\ widget.mounted
  /\ widget.toolOutput = Undefined
  /\ IsVolunteerList
  /\ widget' = [widget EXCEPT !.toolOutput = last.outcome.value.structuredContent]
  /\ UNCHANGED <<pc, dataFile, widgetFile, NODE_ENV, ccData, volunteerWidgetHtml,
                 transports, created, closed, last, errorLog, observed, hits>>

\* line 496: the 'Ask More' button of a card
ClickAskMore(i) ==
  /\ Idle
  /\ View(widget.state) = "list"
  /\ i \in 1..Len(filteredOpps(widget.state))
  /\ widget' = handleAskAboutOpportunity(widget, filteredOpps(widget.state)[i])
  /\ UNCHANGED <<pc, dataFile, widgetFile, NODE_ENV, ccData, volunteerWidgetHtml,
                 transports, created, closed, last, errorLog, observed, hits>>

\* lines 580-594: the 'How to Donate' button of the footer
ClickHowToDonate ==
  /\ Idle
  /\ View(widget.state) = "list"
  /\ widget' = handleShowDonations(widget)
  /\ UNCHANGED <<pc, dataFile, widgetFile, NODE_ENV, ccData, volunteerWidgetHtml,
                 transports, created, closed, last, errorLog, observed, hits>>

\* the volunteer sections whose records have every field of the data model
WidgetSections ==
  {v \in VolunteerSections :
     /\ v.missing = {}
     /\ \A i \in 1..Len(v.opportunities) : v.opportunities[i].missing = {}
     /\ v.general_info = DefaultVolunteer.general_info}

\* the tool calls whose result the host renders with the widget
WidgetCallParams == {<<>>, [schedule_type |-> "flexible"]}

InitWidget ==
  \E v \in WidgetSections :
    Listening(Store(v, DefaultDonations, DefaultOrganization))

NextWidget ==
  \/ \E p \in WidgetCallParams : ApplyVolunteer(p)
  \/ \E ws \in WidgetStates : Mount(ws)
  \/ RunEffect
  \/ Render
  \/ SetGlobal
  \/ \E c \in {OppPool[i].location.city : i \in 1..Len(OppPool)} \cup {<<>>} :
       SelectCity(c)
  \/ \E t \in ScheduleTypes \cup {""} : SelectSchedule(t)
  \/ ClickClear
  \/ \E i \in 1..MaxOpps : ClickAskMore(i)
  \/ ClickHowToDonate

SpecWidget == InitWidget /\ [][NextWidget]_vars

-----------------------------------------------------------------------------
(* Properties *)

IsCall(tool) == last.request = "tools/call" /\ last.tool = tool

\* the result object the last invocation returned
Result == last.outcome.value

\* the result carries the opportunity list, i.e. it is not the apology
HasList(result) == "structuredContent" \in DOMAIN result

Ids(opps) == [i \in 1..Len(opps) |-> opps[i].id]

Range(seq) == {seq[i] : i \in 1..Len(seq)}

Contains(text, piece) == \E i \in 1..Len(text) : text[i] = piece

\* every record of the section has the fields of the data model
WellFormedVolunteer(v) ==
  /\ v.missing = {}
  /\ \A i \in 1..Len(v.opportunities) : v.opportunities[i].missing = {}

\* the numbered paragraphs of a text summary: <<number, title>> of each
NumberedTitles(text) ==
  LET starts == {j \in 2..(Len(text) - 1) : text[j] = T(". **")}
      Nth(k) == CHOOSE j \in starts : Cardinality({h \in starts : h < j}) = k - 1
  IN [k \in 1..Cardinality(starts) |-> <<text[Nth(k) - 1], text[Nth(k) + 1]>>]

StrictlyIncreasing(ns) ==
  \A i, j \in 1..Len(ns) : i < j => ns[i] < ns[j]

(* C1: the list returned for a combination of criteria is the intersection,
   in stored order, of the lists returned for each supplied criterion alone,
   and with no criterion it is the full list; on a store whose records have
   every field of the data model every call returns a list. *)
C1_AndSemantics ==
  IsCall("get_volunteer_opportunities") =>
    LET p == last.params
        stored == ccData.volunteer.opportunities
        alone == [k \in DOMAIN p |->
                    get_volunteer_opportunities(ccData, Restrict(p, {k})).value]
        intersection ==
          SelectSeq(stored,
            LAMBDA opp : \A k \in DOMAIN p :
               opp.id \in Range(Ids(alone[k].structuredContent.opportunities)))
    IN /\ WellFormedVolunteer(ccData.volunteer) => HasList(Result)
       /\ (DOMAIN p = {} /\ HasList(Result)) =>
            Ids(Result.structuredContent.opportunities) = Ids(stored)
       /\ (DOMAIN p # {} /\ \A k \in DOMAIN p : HasList(alone[k])) =>
            /\ HasList(Result)
            /\ Ids(Result.structuredContent.opportunities) = Ids(intersection)

\* two criteria that each keep a record and together keep none
C1_Witness ==
  /\ IsCall("get_volunteer_opportunities")
  /\ DOMAIN last.params = {"city", "schedule_type"}
  /\ HasList(Result)
  /\ Result.structuredContent.opportunities = <<>>
  /\ \A k \in DOMAIN last.params :
       LET r == get_volunteer_opportunities(ccData, Restrict(last.params, {k})).value
       IN HasList(r) /\ Len(r.structuredContent.opportunities) = 1

(* C2: the structured list and the numbered list of the text are both
   subsequences of ccData.volunteer.opportunities: every entry is a stored
   record, in stored order, none twice. *)
C2_Subsequence ==
  (IsCall("get_volunteer_opportunities") /\ HasList(Result)) =>
    LET stored == ccData.volunteer.opportunities
        listed == Result.structuredContent.opportunities
        titles == NumberedTitles(Result.content[1].text)
    IN /\ StrictlyIncreasing(Ids(listed))
       /\ \A i \in 1..Len(listed) :
            /\ listed[i].id \in 1..Len(stored)
            /\ \A f \in {"title", "description", "location", "schedule",
                         "requirements", "contact", "signup_url", "source_url"} :
                 listed[i][f] = stored[listed[i].id][f]
       /\ \E at \in [1..Len(titles) -> 1..Len(stored)] :
            /\ StrictlyIncreasing(at)
            /\ \A k \in 1..Len(titles) :
                 /\ titles[k][1] = N(k)
                 /\ titles[k][2] = S(stored[at[k]].title)

\* a keyword that keeps the second stored record only
C2_Witness ==
  /\ IsCall("get_volunteer_opportunities")
  /\ HasList(Result)
  /\ Has(last.params, "keyword")
  /\ Len(ccData.volunteer.opportunities) = 2
  /\ Ids(Result.structuredContent.opportunities) = <<2>>
  /\ Len(NumberedTitles(Result.content[1].text)) = 1

(* C3: with age_minimum = A as the only criterion (A = 0 included) the list
   returned holds exactly the stored opportunities whose
   requirements.age_minimum is <= A. *)
C3_AgeUpperBound ==
  (IsCall("get_volunteer_opportunities") /\ DOMAIN last.params = {"age_minimum"}) =>
    LET stored == ccData.volunteer.opportunities
        A == last.params.age_minimum
    IN /\ WellFormedVolunteer(ccData.volunteer) => HasList(Result)
       /\ HasList(Result) =>
            Ids(Result.structuredContent.opportunities) =
              Ids(SelectSeq(stored, LAMBDA opp : opp.requirements.age_minimum <= A))

\* stored ages 14 and 18, age_minimum = 16: only the 14+ one is returned
C3_Witness ==
  /\ IsCall("get_volunteer_opportunities")
  /\ DOMAIN last.params = {"age_minimum"}
  /\ last.params.age_minimum = 16
  /\ Len(ccData.volunteer.opportunities) = 2
  /\ ccData.volunteer.opportunities[1].requirements.age_minimum = 18
  /\ ccData.volunteer.opportunities[2].requirements.age_minimum = 14
  /\ HasList(Result)
  /\ Ids(Result.structuredContent.opportunities) = <<2>>

(* C4 as stated: the keyword keeps an opportunity exactly when the lower-cased
   keyword is a substring of the lower-cased concatenation of title and
   description. *)
C4_KeywordInConcatenation ==
  (/\ IsCall("get_volunteer_opportunities")
   /\ DOMAIN last.params = {"keyword"}
   /\ HasList(Result)) =>
    Ids(Result.structuredContent.opportunities) =
      Ids(SelectSeq(ccData.volunteer.opportunities,
            LAMBDA opp : Includes(ToLowerCase(opp.title \o opp.description),
                                  ToLowerCase(last.params.keyword))))

(* C4 amended: the keyword keeps an opportunity exactly when the lower-cased
   keyword is a substring of the lower-cased title or of the lower-cased
   description; an occurrence that spans the two does not count. *)
C4_KeywordInTitleOrDescription ==
  (/\ IsCall("get_volunteer_opportunities")
   /\ DOMAIN last.params = {"keyword"}
   /\ HasList(Result)) =>
    Ids(Result.structuredContent.opportunities) =
      Ids(SelectSeq(ccData.volunteer.opportunities,
            LAMBDA opp :
              \/ Includes(ToLowerCase(opp.title), ToLowerCase(last.params.keyword))
              \/ Includes(ToLowerCase(opp.description),
                          ToLowerCase(last.params.keyword))))

\* an upper-case keyword that occurs across the end of the first record's
\* title and the start of its description, and inside the second record's
\* description: only the second record is returned
C4_Witness ==
  /\ IsCall("get_volunteer_opportunities")
  /\ DOMAIN last.params = {"keyword"}
  /\ last.params.keyword = s_MEALS
  /\ Len(ccData.volunteer.opportunities) = 2
  /\ LET first == ccData.volunteer.opportunities[1]
     IN /\ first.missing = {}
        /\ Includes(ToLowerCase(first.title \o first.description),
                    ToLowerCase(s_MEALS))
  /\ HasList(Result)
  /\ Ids(Result.structuredContent.opportunities) = <<2>>

\* the handler that server.tool registers under a name (lines 104, 222, 290)
ToolHandler(tool, data, params) ==
  IF tool = "get_volunteer_opportunities" THEN get_volunteer_opportunities(data, params)
  ELSE IF tool = "get_donation_options" THEN get_donation_options(data, params)
  ELSE search_org_info(data, params)

\* the try block of the handler registered under a name
ToolTry(tool, data, params) ==
  IF tool = "get_volunteer_opportunities" THEN VolunteerTry(data, params)
  ELSE IF tool = "get_donation_options" THEN DonationTry(data, params)
  ELSE SearchTry(data, params)

AllTools == {"get_volunteer_opportunities", "get_donation_options", "search_org_info"}

(* C5: an invocation of any of the three tools, faulting or not, returns a
   normal tool result, leaves the process listening and the Data Store and
   the session registry as they were, and returns what the handler computes
   from the store as loaded and its own parameters alone, whatever
   invocations faulted before it. *)
C5_FaultIsolation ==
  [][(last'.request = "tools/call" /\ last' # last) =>
       /\ pc' = "listening"
       /\ ccData' = ccData
       /\ transports' = transports
       /\ ~last'.outcome.threw
       /\ "content" \in DOMAIN last'.outcome.value
       /\ last'.outcome = ToolHandler(last'.tool, dataFile.json, last'.params)]_vars

\* every tool has faulted, and a later invocation in the second session
\* returns the rendering of its data
C5_Witness ==
  /\ errorLog = AllTools
  /\ IsCall("get_donation_options")
  /\ last.sessionId = 2
  /\ ~DonationTry(ccData, last.params).threw
  /\ Result.content[1].text # DonationApology

(* C6: the result of an invocation whose try block threw is exactly one text
   item holding the tool's fixed apology with its contact e-mail and phone,
   without structuredContent, without _meta and without the error message. *)
C6_PlainApology ==
  (last.request = "tools/call"
   /\ ToolTry(last.tool, ccData, last.params).threw) =>
    LET error == ToolTry(last.tool, ccData, last.params).error
        text == Result.content[1].text
        address == IF last.tool = "get_volunteer_opportunities"
                   THEN <<"volunteer@cctwincities.org", "(612) 204-8435">>
                   ELSE IF last.tool = "get_donation_options"
                   THEN <<"giving.info@cctwincities.org", "(612) 204-8374">>
                   ELSE <<"info@cctwincities.org", "(612) 204-8500">>
    IN /\ DOMAIN Result = {"content"}
       /\ Len(Result.content) = 1
       /\ Result.content[1].type = "text"
       /\ Len(text) = 5
       /\ text[2] = T(address[1])
       /\ text[4] = T(address[2])
       /\ \A i \in 1..Len(text) : "lit" \in DOMAIN text[i] /\ text[i] # T(error)
       /\ \A p \in SessionSearchParams :
            (last.tool = "search_org_info" /\ SearchTry(ccData, p).threw) =>
              search_org_info(ccData, p).value = Result

\* search_org_info faulted on the missing organization.about
C6_Witness ==
  /\ IsCall("search_org_info")
  /\ SearchTry(ccData, last.params).threw
  /\ SearchTry(ccData, last.params).error = ErrFounded
  /\ Result.content[1].text = SearchApology

(* C7: when CC.json does not parse, lacks one of the keys volunteer,
   donations, organization, or holds a volunteer.opportunities that is not an
   array, the process never listens: no request is served and no session is
   opened. *)
C7_NoServingOnInvalidStore ==
  LET invalid == \/ dataFile.kind # "object"
                 \/ dataFile.json.missing \cap TopLevelKeys # {}
                 \/ ~dataFile.json.volunteer.opportunities_is_array
  IN invalid => /\ pc \in {"load_data", "exited"}
                /\ last = NoRequest
                /\ transports = <<>>
                /\ created = 0

\* the process has exited on a volunteer.opportunities that is not an array
C7_Witness ==
  /\ pc = "exited"
  /\ dataFile.kind = "object"
  /\ dataFile.json.missing = {}
  /\ ~dataFile.json.volunteer.opportunities_is_array
  /\ last = NoRequest

(* C8: when no opportunity matches, the result is not an error, its
   structured list is empty, and its text contains the phone and the e-mail
   of the general volunteer contact of the Data Store, the contact that the
   structured payload carries. *)
C8_NoMatchCarriesStoreContact ==
  (/\ IsCall("get_volunteer_opportunities")
   /\ WellFormedVolunteer(ccData.volunteer)
   /\ ApplyFilters(ccData, last.params) = Ok(<<>>)) =>
    LET contact == ccData.volunteer.general_info.main_contact
    IN /\ HasList(Result)
       /\ Result.structuredContent.opportunities = <<>>
       /\ Result.structuredContent.contact = contact
       /\ Contains(Result.content[1].text, T(contact.email))
       /\ Contains(Result.content[1].text, T(contact.phone))

WellFormedDonation(d, type) ==
  type \notin d.missing /\ d[type].missing = {}

(* C9: for each type in {online, in_kind, vehicle} whose section has the
   fields of the data model, get_donation_options returns that variant's
   rendering: a single text item that is neither the apology nor empty,
   opens with the variant's title, and is the same for every Data Store with
   the same donations[type], whatever the other variants hold. *)
C9_DonationTotal ==
  IsCall("get_donation_options") =>
    LET type == last.params.type
        d == ccData.donations
        text == Result.content[1].text
        title == IF type = "online"
                 THEN "**Online Donations to Catholic Charities Twin Cities**\n\n"
                 ELSE IF type = "in_kind"
                 THEN "**In-Kind Donations to Catholic Charities Twin Cities**\n\n"
                 ELSE "**Vehicle Donation to Catholic Charities Twin Cities**\n\n"
    IN /\ type \in DonationTypes
       /\ DOMAIN Result = {"content"}
       /\ Len(Result.content) = 1
       /\ WellFormedDonation(d, type) =>
            /\ text # DonationApology
            /\ text # <<>>
            /\ text[1] = T(title)
            /\ \A other \in DonationSections :
                 (type \notin other.missing /\ other[type] = d[type]) =>
                   get_donation_options(
                     Store(DefaultVolunteer, other, DefaultOrganization),
                     last.params).value = Result

\* the in_kind rendering of a section with two accepted-item categories
C9_Witness ==
  /\ IsCall("get_donation_options")
  /\ last.params.type = "in_kind"
  /\ WellFormedDonation(ccData.donations, "in_kind")
  /\ Len(ccData.donations.in_kind.accepted_items) = 2
  /\ Result.content[1].text[1] =
       T("**In-Kind Donations to Catholic Charities Twin Cities**\n\n")

\* the headings of the blocks of a search_org_info text, in order
Headings(text) ==
  LET starts == {j \in 1..(Len(text) - 2) :
                   text[j] = T("**") /\ text[j + 2] = T("**\n\n")}
      Nth(k) == CHOOSE j \in starts : Cardinality({h \in starts : h < j}) = k - 1
  IN [k \in 1..Cardinality(starts) |-> text[Nth(k) + 1]]

\* the category a block belongs to: 1 mission/about, 2 service,
\* 3 contact/location, 4 event, 5 statistic, 0 the default block
CategoryOf(heading) ==
  IF heading \in {T("Mission"), T("History")} THEN 1
  ELSE IF heading \in {T("Contact Information"), T("Locations")} THEN 3
  ELSE IF heading = T("Upcoming Events") THEN 4
  ELSE IF heading = T("Impact & Statistics") THEN 5
  ELSE IF heading = T("About Catholic Charities Twin Cities") THEN 0
  ELSE 2

CategoryKeywords ==
  <<MissionKeywords, serviceKeywords, ContactKeywords, EventKeywords, StatKeywords>>

(* C10: the blocks of a search_org_info result are those of exactly the
   categories that have a keyword contained in the lower-cased query, in the
   order mission/about, service, contact/location, event, statistic; each
   triggered category contributes its own blocks whatever else is triggered. *)
C10_IndependentCategories ==
  IsCall("search_org_info") =>
    LET text == Result.content[1].text
        query == ToLowerCase(last.params.query)
        headings == Headings(text)
        category == [i \in 1..Len(headings) |-> CategoryOf(headings[i])]
        triggered == {c \in 1..5 : AnyIncluded(query, CategoryKeywords[c])}
        Of(c) == SelectSeq(headings, LAMBDA h : CategoryOf(h) = c)
    IN /\ ccData.organization.missing = {} => text # SearchApology
       /\ text # SearchApology =>
            /\ \A i, j \in 1..Len(category) : i < j => category[i] <= category[j]
            /\ Range(category) \ {0} = triggered
            /\ Of(1) = IF 1 \in triggered
                       THEN <<T("Mission"), T("History")>> ELSE <<>>
            /\ Of(3) = IF 3 \in triggered
                       THEN <<T("Contact Information"), T("Locations")>> ELSE <<>>
            /\ Of(4) = IF 4 \in triggered THEN <<T("Upcoming Events")>> ELSE <<>>
            /\ Of(5) = IF 5 \in triggered THEN <<T("Impact & Statistics")>> ELSE <<>>

\* a statistic word before a mission word: the mission blocks come first
C10_Witness ==
  /\ IsCall("search_org_info")
  /\ last.params.query = Join(<<w_stats, w_Mission>>, <<" ">>)
  /\ Headings(Result.content[1].text) =
       <<T("Mission"), T("History"), T("Impact & Statistics")>>

\* the whitespace-delimited tokens of a query whose separators are spaces
WhitespaceTokens(query) == SelectSeq(Split(query, " "), LAMBDA w : w # <<>>)

\* a token is contained in the lower-cased name, description or keywords
ServiceHasToken(svc, query) ==
  LET tokens == WhitespaceTokens(query)
  IN \E i \in 1..Len(tokens) :
       \/ Includes(ToLowerCase(svc.name), tokens[i])
       \/ Includes(ToLowerCase(svc.description), tokens[i])
       \/ \E k \in 1..Len(svc.keywords) :
            Includes(ToLowerCase(svc.keywords[k]), tokens[i])

\* the headings of the service category in a result text
ServiceHeadings(text) == SelectSeq(Headings(text), LAMBDA h : CategoryOf(h) = 2)

(* C11: when the service category is triggered, the service blocks of the
   result are, in stored order, those of exactly the services whose
   lower-cased name, description or keywords contain a whitespace-delimited
   token of the query; when no service contains a token the only service
   block is 'Services Overview'.  Leading, trailing and consecutive spaces
   delimit no token. *)
C11_ServiceBlocksPerToken ==
  (/\ IsCall("search_org_info")
   /\ Result.content[1].text # SearchApology
   /\ AnyIncluded(ToLowerCase(last.params.query), serviceKeywords)) =>
    LET query == ToLowerCase(last.params.query)
        matching == SelectSeq(ccData.organization.services,
                              LAMBDA svc : ServiceHasToken(svc, query))
    IN ServiceHeadings(Result.content[1].text) =
         IF Len(matching) > 0
         THEN [i \in 1..Len(matching) |-> S(matching[i].name)]
         ELSE <<T("Services Overview")>>

(* C12: on a store whose organization section has the fields of the data
   model, search_org_info with the query "mission" returns exactly two
   blocks, a Mission block followed by a History block: no service,
   contact, locations, events, statistics or default block. *)
C12_MissionQuery ==
  (/\ IsCall("search_org_info")
   /\ last.params.query = w_mission
   /\ ccData.organization.missing = {}) =>
    LET org == ccData.organization
    IN Result.content[1].text =
         <<T("**"), T("Mission"), T("**\n\n"), T(org.mission),
           T("\n\nSource: "), T(org.source_url),
           T("\n\n---\n\n"),
           T("**"), T("History"), T("**\n\n"),
           T(org.about.history), T(" Founded in "), N(org.about.founded),
           T(", Catholic Charities has served the Twin Cities for "),
           N(org.about.stats.years_operating), T(" years."),
           T("\n\nSource: "), T(org.source_url)>>

\* the query "mission" on a store that has services to offer
C12_Witness ==
  /\ IsCall("search_org_info")
  /\ last.params.query = w_mission
  /\ Len(ccData.organization.services) = MaxServices
  /\ Headings(Result.content[1].text) = <<T("Mission"), T("History")>>

(* C13: a successful search_org_info result has the default 'About' block
   if and only if the lower-cased query contains no keyword of the five
   categories; the default block is then the only block, and the result
   list is never empty.  On a store with the fields of the data model every
   search is successful. *)
C13_DefaultBlock ==
  IsCall("search_org_info") =>
    LET text == Result.content[1].text
        query == ToLowerCase(last.params.query)
        headings == Headings(text)
        about == T("About Catholic Charities Twin Cities")
        triggered == {c \in 1..5 : AnyIncluded(query, CategoryKeywords[c])}
    IN /\ ccData.organization.missing = {} => text # SearchApology
       /\ text # SearchApology =>
            /\ Len(headings) > 0
            /\ about \in Range(headings) <=> triggered = {}
            /\ about \in Range(headings) => headings = <<about>>
            /\ triggered = {} =>
                 text = <<T("**"), about, T("**\n\n"),
                          T(ccData.organization.mission), T("\n\nServing the "),
                          T(ccData.organization.service_area), T(" since "),
                          N(ccData.organization.about.founded),
                          T(".\n\nContact: "),
                          T(ccData.organization.contact.main_phone), T(" | "),
                          T(ccData.organization.contact.main_email),
                          T("\n\nSource: "), T(ccData.organization.source_url)>>

\* a query of two words that are no keyword of any category
C13_Witness ==
  /\ IsCall("search_org_info")
  /\ last.params.query = Join(<<w_do, w_what>>, <<" ">>)
  /\ Headings(Result.content[1].text) = <<T("About Catholic Charities Twin Cities")>>

(* C14: a call that repeats a call answered earlier, in the same or in
   another session and whatever requests were served in between, returns
   the identical result: the same text, the same structured content and
   the same metadata, or the same apology. *)
C14_Deterministic ==
  (/\ observed # NoRequest
   /\ last.request = "tools/call"
   /\ last.tool = observed.tool
   /\ last.params = observed.params) =>
    last.outcome = observed.outcome

\* a volunteer search answered in one session is repeated in another one
\* after the other two tools have faulted
C14_Witness ==
  /\ observed # NoRequest
  /\ IsCall("get_volunteer_opportunities")
  /\ observed.tool = last.tool
  /\ observed.params = last.params
  /\ "city" \in DOMAIN last.params
  /\ observed.sessionId # last.sessionId
  /\ errorLog = {"get_donation_options", "search_org_info"}
  /\ HasList(Result)
  /\ Result = observed.outcome.value

(* C15: ccData is assigned by the load step and by nothing else: every step
   taken after the load (a tool invocation that succeeds or faults, the
   opening or closing of a session, a rejected message, a health check)
   leaves the Data Store and every record in it as it was, so a process
   that got past the load always holds the parsed content of CC.json. *)
C15_DataStoreImmutable ==
  [][/\ pc # "load_data" => ccData' = ccData
     /\ pc' \in {"load_widget", "listen", "listening"} => ccData' = dataFile.json]_vars

\* all tools have faulted, a call has succeeded and every session is closed
C15_Witness ==
  /\ pc = "listening"
  /\ errorLog = AllTools
  /\ created = MaxSessions
  /\ DOMAIN transports = {}
  /\ IsCall("get_volunteer_opportunities")
  /\ HasList(Result)
  /\ ccData = FlawedStore

(* C16: the text summary of a get_volunteer_opportunities result with
   n >= 1 matches opens with 'Found n volunteer opportunity:' when n = 1
   and with 'Found n volunteer opportunities:' when n >= 2, and n is the
   number of opportunities of the structured list and of the numbered
   paragraphs of the text. *)
C16_NounAgreesWithCount ==
  (/\ IsCall("get_volunteer_opportunities")
   /\ HasList(Result)
   /\ Len(Result.structuredContent.opportunities) >= 1) =>
    LET text == Result.content[1].text
        n == Len(Result.structuredContent.opportunities)
    IN /\ SubSeq(text, 1, 3) = <<T("Found "), N(n), T(" volunteer opportunit")>>
       /\ n = 1 => text[4] = T("y")
       /\ n >= 2 => text[4] = T("ies")
       /\ text[5] = T(":\n\n")
       /\ Len(NumberedTitles(text)) = n

\* one opportunity out of a longer stored list matches
C16_Witness ==
  /\ IsCall("get_volunteer_opportunities")
  /\ HasList(Result)
  /\ Len(ccData.volunteer.opportunities) = MaxOpps
  /\ Len(Result.structuredContent.opportunities) = 1
  /\ SubSeq(Result.content[1].text, 1, 5) =
       <<T("Found "), N(1), T(" volunteer opportunit"), T("y"), T(":\n\n")>>

(* C17: once the transport created for a session id has had its close
   event the registry has no entry for that id, and every later
   POST /messages for the id is answered 404 'Session not found' without
   being handed to a transport. *)
C17_ClosedSessionDropped ==
  [][\A s \in closed' :
       /\ s \notin DOMAIN transports'
       /\ (/\ last' # last
           /\ last'.request \in {"POST /messages", "tools/call", "resources/read"}
           /\ last'.sessionId = s) =>
            /\ last'.request = "POST /messages"
            /\ last'.status = 404]_vars

\* a message is posted to the closed first session while the second is live
C17_Witness ==
  /\ 1 \in closed
  /\ 2 \in DOMAIN transports
  /\ transports[2].connected
  /\ last.request = "POST /messages"
  /\ last.sessionId = 1
  /\ last.status = 404

(* C18: when dist/volunteer-widget.html cannot be read at startup, a
   process with NODE_ENV = production never listens and serves nothing; a
   process with another NODE_ENV does not exit on that account, goes on
   with the 'Widget Not Built' placeholder as its widget document and
   serves it for every read of the widget resource; an empty widget
   document is never served. *)
C18_UnreadableWidget ==
  widgetFile = "unreadable" =>
    /\ NODE_ENV = "production" =>
         /\ pc \in {"load_data", "load_widget", "exited"}
         /\ last = NoRequest
         /\ created = 0
    /\ NODE_ENV # "production" =>
         /\ pc = "exited" => (dataFile.kind # "object" \/ ~ValidStructure(dataFile.json))
         /\ pc \in {"listen", "listening"} => volunteerWidgetHtml = WidgetPlaceholder
         /\ last.request = "resources/read" =>
              /\ Len(last.contents) = 1
              /\ last.contents[1].text = WidgetPlaceholder
    /\ last.request = "resources/read" => last.contents[1].text # ""

\* the placeholder is served to the second session of a development process
C18_Witness ==
  /\ widgetFile = "unreadable"
  /\ NODE_ENV = "development"
  /\ last.request = "resources/read"
  /\ last.sessionId = 2
  /\ last.contents[1].text = WidgetPlaceholder

(* C19: the call made on window.openai by the handler of the 'How to
   Donate' button is callTool with the tool name get_donation_options. *)
C19_DonateButtonCallsTool ==
  (widget.mounted /\ widget.lastCall.method # "none"
   /\ widget.lastCall.handler = "handleShowDonations") =>
    /\ widget.lastCall.method = "callTool"
    /\ widget.lastCall.toolName = "get_donation_options"

\* the state the host persists for the committed filters
FiltersOf(state) ==
  [filterCity |-> state.filterCity, filterSchedule |-> state.filterSchedule]

(* C20: whenever the widget has nothing left to run, the persisted
   widgetState is {filterCity, filterSchedule} of the committed filters,
   so it follows every change of a filter; and a widget mounted with tool
   output and a persisted state {c, s} finishes its mount effects with the
   filters (c, s) and the persisted state {c, s}. *)
C20_FiltersPersist ==
  Idle =>
    /\ widget.widgetState = FiltersOf(widget.state)
    /\ (/\ ~widget.touched
        /\ widget.state.data # Undefined
        /\ DOMAIN widget.atMount = {"filterCity", "filterSchedule"}) =>
         /\ FiltersOf(widget.state) = widget.atMount
         /\ widget.widgetState = widget.atMount

\* the mount effects have ended on the restored filters St. Paul / flexible
C20_Witness ==
  /\ Idle
  /\ ~widget.touched
  /\ widget.toolOutput # Undefined
  /\ widget.atMount = [filterCity |-> s_StPaul, filterSchedule |-> "flexible"]
  /\ widget.state.filterCity = s_StPaul
  /\ widget.state.filterSchedule = "flexible"
  /\ widget.widgetState = widget.atMount


-----------------------------------------------------------------------------
(* The rate limiter *)

\* a listening server with one established session, whose limiter has counted
\* nothing yet for the client's address
InitLimiter ==
  /\ pc = "listening"
  /\ dataFile = [kind |-> "object", json |-> GoodStore]
  /\ widgetFile = "<html>volunteer widget</html>"
  /\ NODE_ENV = "production"
  /\ ccData = GoodStore
  /\ volunteerWidgetHtml = widgetFile
  /\ transports = <<[sessionId |-> 1, server |-> 1, connected |-> TRUE]>>
  /\ created = 1
  /\ closed = {}
  /\ last = NoRequest
  /\ errorLog = {}
  /\ widget = NoWidget
  /\ observed = NoRequest
  /\ hits = [client |-> 0]

\* the requests of one client address, and the passing of the window
NextLimiter ==
  \/ GetMcp(TRUE)
  \/ \E s \in SessionIds \cup {0} : PostMessagesRejected(s)
  \/ Health
  \/ \E s \in SessionIds : ReadWidget(s)
  \/ \E s \in SessionIds, p \in DonationParams : CallDonation(s, p)
  \/ \E r \in {<<"/mcp", "GET /mcp">>, <<"/messages", "POST /messages">>} :
       TooManyRequests(r[1], r[2])
  \/ WindowExpires

SpecLimiter == InitLimiter /\ [][NextLimiter]_vars

\* the client's address has max counted requests or more in the window
OverLimit == \E a \in DOMAIN hits : hits[a] >= max

\* the requests answered on /mcp and /messages
LimitedRequests == {"GET /mcp", "POST /messages", "tools/call", "resources/read"}

\* C21: a request to /mcp or /messages that arrives when the client's address
\* has already made max requests in the window is answered 429 and changes
\* neither the registry, nor the number of transports created, nor the error
\* log, nor the Data Store; no request is answered 429 before that; a request
\* to /health is answered 200 whatever the count, and is not counted.
C21_RateLimited ==
  [][ /\ ((last' # last \/ \E a \in DOMAIN hits : hits'[a] = hits[a] + 1)
           /\ last'.request \in LimitedRequests) =>
          IF OverLimit
          THEN /\ last'.status = 429
               /\ transports' = transports
               /\ created' = created
               /\ errorLog' = errorLog
               /\ ccData' = ccData
          ELSE last'.status # 429
      /\ (last' # last /\ last'.request = "GET /health") =>
          /\ last'.status = 200
          /\ hits' = hits]_vars

\* both limited paths have rejected a request and /health has answered since
C21_Witness ==
  /\ hits = [client |-> max + 2]
  /\ last.request = "POST /messages"
  /\ last.status = 429


\* the numbered paragraphs of a non-empty text summary, each as the pieces
\* from its number up to the separator or the closing contact line
ParagraphsOf(text) ==
  LET starts == {j \in 2..(Len(text) - 1) : text[j] = T(". **")}
      n == Cardinality(starts)
      Nth(k) == CHOOSE j \in starts : Cardinality({h \in starts : h < j}) = k - 1
      closing == CHOOSE j \in 1..Len(text) :
                   text[j] = T("\n**General volunteer contact:** ")
  IN [k \in 1..n |->
        SubSeq(text, Nth(k) - 1,
               IF k < n THEN Nth(k + 1) - 3 ELSE closing - 1)]

\* piece a is in the text and directly followed by the pieces of rest
Follows(text, a, rest) ==
  \E i \in 1..Len(text) :
    /\ text[i] = a
    /\ i + Len(rest) <= Len(text)
    /\ SubSeq(text, i + 1, i + Len(rest)) = rest

(* C22: in a text summary for one or more matches the k-th paragraph is
   numbered k, has the line 'Age: N+' with the minimum age of the k-th
   matched opportunity and the contact line with its email and phone, has the
   group-friendly clause exactly when requirements.group_friendly is true, the
   skills clause exactly when the skills list is non-empty and the sign-up
   line exactly when signup_url is set; the text ends with the email and
   phone of volunteer.general_info.main_contact of the Data Store. *)
C22_ParagraphPerOpportunity ==
  (/\ IsCall("get_volunteer_opportunities")
   /\ HasList(Result)
   /\ Len(Result.structuredContent.opportunities) >= 1) =>
    LET text == Result.content[1].text
        opps == Result.structuredContent.opportunities
        paras == ParagraphsOf(text)
        main == ccData.volunteer.general_info.main_contact
    IN /\ Len(paras) = Len(opps)
       /\ \A k \in 1..Len(paras) :
            LET para == paras[k]
                req == opps[k].requirements
            IN /\ para[1] = N(k)
               /\ Follows(para, T("   Age: "), <<N(req.age_minimum), T("+")>>)
               /\ Follows(para, T("   Contact: "),
                          <<T(opps[k].contact.email), T(" | "),
                            T(opps[k].contact.phone), T("\n")>>)
               /\ Contains(para, T(" | Group-friendly (max "))
                    <=> req.group_friendly
               /\ Contains(para, T(" | Skills: ")) <=> Len(req.skills) > 0
               /\ Contains(para, T("   Sign up: "))
                    <=> opps[k].signup_url \notin {null, ""}
               /\ Cardinality({i \in 1..Len(para) : para[i] = T("   Age: ")}) = 1
       /\ SubSeq(text, Len(text) - 3, Len(text)) =
            <<T("\n**General volunteer contact:** "), T(main.email), T(" | "),
              T(main.phone)>>

\* two matches, the first with a sign-up link, group-friendly and with skills,
\* the second with none of the three
C22_Witness ==
  /\ IsCall("get_volunteer_opportunities")
  /\ HasList(Result)
  /\ Len(Result.structuredContent.opportunities) = 2
  /\ LET opps == Result.structuredContent.opportunities
     IN /\ opps[1].signup_url # null
        /\ opps[1].requirements.group_friendly
        /\ Len(opps[1].requirements.skills) > 0
        /\ opps[2].signup_url = null
        /\ ~opps[2].requirements.group_friendly


\* the answers of the POST /messages route
IsPost(response) ==
  /\ response.request \in {"POST /messages", "tools/call", "resources/read"}
  /\ "sessionId" \in DOMAIN response

(* C23: a POST /messages without a sessionId is answered 400 and one whose
   sessionId has no registry entry is answered 404, in both cases with no
   transport invoked and the registry unchanged; a POST whose sessionId has a
   registry entry is handled by the transport stored under that sessionId,
   which is the transport created with that id. *)
C23_DispatchToAddressed ==
  [][(last' # last /\ IsPost(last')) =>
       IF last'.sessionId = 0
       THEN /\ last'.status = 400
            /\ "transport" \notin DOMAIN last'
            /\ transports' = transports
       ELSE IF last'.sessionId \notin DOMAIN transports
       THEN /\ last'.status = 404
            /\ "transport" \notin DOMAIN last'
            /\ transports' = transports
       ELSE /\ last'.status \notin {400, 404}
            /\ "transport" \in DOMAIN last'
            /\ last'.transport = last'.sessionId
            /\ transports[last'.sessionId].sessionId = last'.transport]_vars

\* with two sessions registered, a message has been handed to the transport
\* of the second
C23_Witness ==
  /\ Cardinality(DOMAIN transports) = 2
  /\ last.request = "tools/call"
  /\ last.sessionId = 2
  /\ last.transport = 2


(* C24: after every step no two registry entries hold the same transport or
   the same server; a GET /mcp adds one entry whose transport and server are
   in no other entry and were in none before, a close removes one entry, and
   every entry present before and after a step is unchanged by it. *)
C24_SessionIsolation ==
  [][ /\ \A s, t \in DOMAIN transports' :
          s # t => /\ transports'[s].sessionId # transports'[t].sessionId
                   /\ transports'[s].server # transports'[t].server
      /\ \A s \in DOMAIN transports \cap DOMAIN transports' :
          transports'[s] = transports[s]
      /\ Cardinality((DOMAIN transports' \ DOMAIN transports)
                     \cup (DOMAIN transports \ DOMAIN transports')) <= 1
      /\ \A s \in DOMAIN transports' \ DOMAIN transports :
          /\ s \notin closed
          /\ \A t \in DOMAIN transports :
               /\ transports[t].sessionId # transports'[s].sessionId
               /\ transports[t].server # transports'[s].server]_vars

\* two sessions were opened and the first closed; the second is registered
C24_Witness ==
  /\ created = 2
  /\ closed = {1}
  /\ DOMAIN transports = {2}
  /\ transports[2].server = 2


(* C25: every combination of criteria on every store returns a result, never
   a thrown error or a result flagged isError; on a store whose records have
   every field of the data model the result carries a list: with no parameter
   the stored list; every returned opportunity has the group-friendly flag
   that was asked for, false included, and with group_friendly as the only
   criterion the list is exactly the stored opportunities with that flag, in
   stored order. *)
C25_AbsentCriterionFalsyCriterion ==
  IsCall("get_volunteer_opportunities") =>
    LET p == last.params
        stored == ccData.volunteer.opportunities
    IN /\ ~last.outcome.threw
       /\ "isError" \notin DOMAIN Result
       /\ WellFormedVolunteer(ccData.volunteer) =>
            /\ HasList(Result)
            /\ LET list == Result.structuredContent.opportunities
               IN /\ p = <<>> => list = StructuredOpportunities(stored)
                  /\ Has(p, "group_friendly") =>
                       \A i \in 1..Len(list) :
                         list[i].requirements.group_friendly = p.group_friendly
                  /\ DOMAIN p = {"group_friendly"} =>
                       list = StructuredOpportunities(
                                SelectSeq(stored,
                                  LAMBDA opp : opp.requirements.group_friendly
                                                 = p.group_friendly))

\* group_friendly = false alone, on a store with one opportunity of each kind:
\* the one that is not group-friendly is returned
C25_Witness ==
  /\ IsCall("get_volunteer_opportunities")
  /\ WellFormedVolunteer(ccData.volunteer)
  /\ DOMAIN last.params = {"group_friendly"}
  /\ ~last.params.group_friendly
  /\ Len(ccData.volunteer.opportunities) = 2
  /\ Len(Result.structuredContent.opportunities) = 1


-----------------------------------------------------------------------------
(* The widget's views and local filters *)

\* the opportunity passes the local filters of the state
PassesLocalFilters(opp, state) ==
  /\ state.filterCity # <<>> =>
       Includes(ToLowerCase(opp.location.city), ToLowerCase(state.filterCity))
  /\ state.filterSchedule # "" => opp.schedule.type = state.filterSchedule

(* C26: the rendered view is 'No opportunities match your filters' exactly
   when the tool output is loaded, a filter is set and no opportunity of the
   output passes the filters; and once a click on a clear button has been
   rendered and its effects have run, both filters are empty, the view is not
   the no-match view and the list shown is the whole list of the tool
   output. *)
C26_NoMatchViewAndClear ==
  widget.mounted =>
    /\ View(widget.state) = "no_match" <=>
         /\ widget.state.data # Undefined
         /\ (widget.state.filterCity # <<>> \/ widget.state.filterSchedule # "")
         /\ \A i \in 1..Len(widget.state.data.opportunities) :
              ~PassesLocalFilters(widget.state.data.opportunities[i],
                                  widget.state)
    /\ (Idle /\ widget.cleared) =>
         /\ widget.state.filterCity = <<>>
         /\ widget.state.filterSchedule = ""
         /\ View(widget.state) \in {"list", "no_opportunities"}
         /\ filteredOpps(widget.state) = widget.toolOutput.opportunities

\* restored filters matched nothing, 'Clear Filters' was clicked, and the
\* list of the tool output is shown
C26_Witness ==
  /\ Idle
  /\ widget.cleared
  /\ widget.atMount = [filterCity |-> s_StPaul, filterSchedule |-> "flexible"]
  /\ View([widget.state EXCEPT !.filterCity = s_StPaul,
                               !.filterSchedule = "flexible"]) = "no_match"
  /\ View(widget.state) = "list"


\* the widget holds the output of a call without criteria
HoldsUnfilteredOutput ==
  /\ widget.mounted
  /\ widget.state.data # Undefined
  /\ IsVolunteerList
  /\ last.params = <<>>
  /\ widget.state.data = last.outcome.value.structuredContent

(* C29: when the widget holds the output of a call without criteria and both
   local filters are set, to c and s, the list it shows is the list that
   get_volunteer_opportunities returns on the same store for city = c and
   schedule_type = s: the same records in the same order. *)
C29_LocalFilterAgreesWithServer ==
  (/\ HoldsUnfilteredOutput
   /\ widget.state.filterCity # <<>>
   /\ widget.state.filterSchedule # "") =>
    LET served == get_volunteer_opportunities(
                    ccData, [city |-> widget.state.filterCity,
                             schedule_type |-> widget.state.filterSchedule])
    IN /\ ~served.threw
       /\ HasList(served.value)
       /\ filteredOpps(widget.state)
            = served.value.structuredContent.opportunities

\* a city and a schedule type selected that together keep one of two
\* opportunities
C29_Witness ==
  /\ HoldsUnfilteredOutput
  /\ Idle
  /\ widget.touched
  /\ widget.state.filterCity # <<>>
  /\ widget.state.filterSchedule # ""
  /\ Len(widget.state.data.opportunities) = 2
  /\ Len(filteredOpps(widget.state)) = 1

(* C30: once the widget has nothing left to run and window.openai.toolOutput
   is set, whether it was set before the mount or afterwards, the view is
   the opportunity list or one of the two empty-state views, not 'Loading
   opportunities...'. *)
C30_LeavesLoading ==
  (Idle /\ widget.toolOutput # Undefined) => View(widget.state) # "loading"


-----------------------------------------------------------------------------
(* Text and structured payload of get_volunteer_opportunities *)

(* C27: in every result of get_volunteer_opportunities that carries the
   structured payload, the number of numbered paragraphs of the text is the
   length of structuredContent.opportunities, the count after 'Found' is
   that length when there is a match, the no-match text has no paragraph, and
   the i-th paragraph is numbered i and titled as the i-th structured
   record. *)
C27_TextMatchesStructured ==
  (IsCall("get_volunteer_opportunities") /\ HasList(Result)) =>
    LET text == Result.content[1].text
        opps == Result.structuredContent.opportunities
        titles == NumberedTitles(text)
    IN /\ Len(titles) = Len(opps)
       /\ IF Len(opps) = 0
          THEN text = NoMatchText
          ELSE text[1] = T("Found ") /\ text[2] = N(Len(opps))
       /\ \A i \in 1..Len(titles) :
            titles[i] = <<N(i), S(opps[i].title)>>

\* the first stored opportunity is filtered out: the one paragraph is titled
\* as the second stored opportunity, which is the one structured record
C27_Witness ==
  /\ IsCall("get_volunteer_opportunities")
  /\ HasList(Result)
  /\ Len(ccData.volunteer.opportunities) = 2
  /\ Len(Result.structuredContent.opportunities) = 1
  /\ Result.structuredContent.opportunities[1].title
       = ccData.volunteer.opportunities[2].title
  /\ ccData.volunteer.opportunities[1].title
       # ccData.volunteer.opportunities[2].title
  /\ NumberedTitles(Result.content[1].text)
       = <<(<<N(1), S(ccData.volunteer.opportunities[2].title)>>)>>


-----------------------------------------------------------------------------
(* The registry and failed connections *)

(* C28: every registry entry holds a transport whose SSE stream was
   established; after a GET /mcp answered 500 the registry has no entry for
   the session of that request; and no POST /messages is handed to a
   transport that was not connected. *)
C28_RegistryHoldsEstablished ==
  /\ \A s \in DOMAIN transports : transports[s].connected
  /\ (last.request = "GET /mcp" /\ last.status = 500) =>
       last.sessionId \notin DOMAIN transports
  /\ (last.request = "POST /messages" /\ "transport" \in DOMAIN last) =>
       last.status # 500

=============================================================================
